---- MODULE Spec2Model ----
(***************************************************************************)
(* State-machine model of SilenceCut Studio: removeSilence, bufferToWav,    *)
(* bufferToMp3, applyNoiseGate, getNoiseFloor and enhanceAudio of          *)
(* src/lib/audioProcessing.ts and the handlers of src/App.tsx, one         *)
(* specification per function.                                             *)
(*                                                                         *)
(* Numbers.  A sample is an integer numerator over SampleDen (the real     *)
(* value is n / SampleDen); all arithmetic on samples is exact rational    *)
(* arithmetic, float rounding is not modelled.  A Float32Array is a        *)
(* sequence of runs [len, v0, dv]: run sample k (0-based) is v0 + k*dv.    *)
(* Array indices are 0-based as in the source; TLA+ sequences of regions,  *)
(* blocks and channels are 1-based, so source index k is element k + 1.    *)
(* An output sample of applyNoiseGate is kept as its two factors, the      *)
(* input sample and the gain (num / den) ^ exp.                            *)
(***************************************************************************)
EXTENDS Integers, Sequences, FiniteSets, TLC

VARIABLES
    pc,                 \* position of the modelled call
    inputBuffer,        \* removeSilence: the AudioBuffer argument
    options,            \* removeSilence: the SilenceOptions argument
    onProgress,         \* removeSilence: whether a progress callback was passed
    blockIsSilence,     \* removeSilence: Uint8Array, one flag per block
    rawRegions,         \* removeSilence: regions produced by segmentation
    regions,            \* removeSilence: the padded copy of rawRegions
    outputSamplesCount, \* removeSilence: sum of kept samples
    regionDirectives,   \* removeSilence: [regionIndex, keepRatio] per non-empty region
    outputBuffer,       \* removeSilence, applyNoiseGate: the allocated result buffer
    c,                  \* removeSilence, applyNoiseGate: channel loop counter
    i,                  \* removeSilence: directive loop counter; applyNoiseGate: sample index
    writeCursor,        \* removeSilence: write position in outputData
    progressLog,        \* removeSilence: values passed to onProgress, in call order
    finalRegions,       \* removeSilence: result.regions
    buffer,             \* bufferToWav, applyNoiseGate: the AudioBuffer argument
    view,               \* bufferToWav: the bytes of bufferOut
    offset,             \* bufferToWav: write position in view
    pos,                \* bufferToWav: frame position
    gateThresholdDb,    \* applyNoiseGate: the thresholdDb argument
    aggressive,         \* applyNoiseGate: the aggressive argument
    envelope,           \* applyNoiseGate: the envelope follower of the current channel
    yields,             \* number of yieldToMain calls awaited so far
    rmsValues,          \* getNoiseFloor: the mean squares of the windows kept so far
    noiseFloor,         \* getNoiseFloor: the returned value
    lamejs,             \* bufferToMp3: whether the global lamejs is defined
    mp3encoder,         \* bufferToMp3: the Mp3Encoder and the calls it received
    mp3Data,            \* bufferToMp3: the chunks pushed so far
    samplesConverted,   \* bufferToMp3: number of samples read and converted so far
    file,               \* App: the selected file
    workflowStep,       \* App: the screen shown
    mode,               \* App: SilenceMode, the removeRatio in percent
    silenceEnabled,     \* App: feature toggle
    enhanceEnabled,     \* App: feature toggle
    status,             \* App: ProcessingState
    errorMsg,           \* App: the message shown
    progress,           \* App: percentage shown while processing
    originalDuration,   \* App: the buffer whose duration is shown as original
    newDuration,        \* App: the buffer whose duration is shown as new
    originalBuffer,     \* App: the decoded buffer
    processedBuffer,    \* App: the processed buffer
    silenceRegions,     \* App: the regions shown
    downloadUrl,        \* App: the object URL of the encoded payload
    exportFormat,       \* App: the selected export format
    isEncoding,         \* App: an encoding is running
    hpFile,             \* handleProcess: file, as the closure of the run sees it
    hpSilenceOn,        \* handleProcess: silenceEnabled of the closure
    hpEnhanceOn,        \* handleProcess: enhanceEnabled of the closure
    hpMode,             \* handleProcess: mode of the closure
    finalBuffer,        \* handleProcess: local finalBuffer
    hpRegions,          \* handleProcess: local regions
    calls,              \* handleProcess: the library calls of the run so far, in order
    statusLog,          \* handleProcess: the values the run has given to status, in order
    encodings           \* handleFormatChange: its generateDownload calls in flight

rsVars == <<inputBuffer, options, onProgress, blockIsSilence, rawRegions, regions,
            outputSamplesCount, regionDirectives, outputBuffer, c, i, writeCursor,
            progressLog, finalRegions>>

wavVars == <<view, offset, pos>>

gateVars == <<gateThresholdDb, aggressive, envelope>>

nfVars == <<rmsValues, noiseFloor>>

mp3Vars == <<lamejs, mp3encoder, mp3Data, samplesConverted>>

appVars == <<file, workflowStep, mode, silenceEnabled, enhanceEnabled, status, errorMsg,
             progress, originalDuration, newDuration, originalBuffer, processedBuffer,
             silenceRegions, downloadUrl, exportFormat, isEncoding, hpFile, hpSilenceOn,
             hpEnhanceOn, hpMode, finalBuffer, hpRegions, calls, statusLog, encodings>>

extVars == <<nfVars, mp3Vars, appVars>>

vars == <<pc, yields, rsVars, buffer, wavVars, gateVars, nfVars, mp3Vars, appVars>>

-----------------------------------------------------------------------------
(* Bounds of the model *)

\* removeSilence inputs have 1..MaxBlocks analysis blocks.
MaxBlocks == 3

-----------------------------------------------------------------------------
(* Numbers *)

\* Denominator of sample values: a sample n stands for n / SampleDen.
SampleDen == 2 * 32768

Null == "null"

\* The variables of getNoiseFloor, bufferToMp3 and the App component while
\* none of them runs: the initial state of the component (App.tsx:109-138).
\* In the App state null is <<>> and a value v is a non-empty sequence: a file
\* is <<name>>, a buffer the sequence of the library functions that made it, a
\* duration the buffer it is the duration of.
NoiseFloorIdle ==
    /\ rmsValues = <<>>
    /\ noiseFloor = Null

Mp3Idle ==
    /\ lamejs = "loaded"
    /\ mp3encoder = Null
    /\ mp3Data = <<>>
    /\ samplesConverted = 0

AppIdle ==
    /\ file = <<>>
    /\ workflowStep = "landing"
    /\ mode = 70
    /\ silenceEnabled = TRUE
    /\ enhanceEnabled = FALSE
    /\ status = "idle"
    /\ errorMsg = ""
    /\ progress = 0
    /\ originalDuration = <<>>
    /\ newDuration = <<>>
    /\ originalBuffer = <<>>
    /\ processedBuffer = <<>>
    /\ silenceRegions = <<>>
    /\ downloadUrl = <<>>
    /\ exportFormat = "wav"
    /\ isEncoding = FALSE
    /\ hpFile = <<>>
    /\ hpSilenceOn = FALSE
    /\ hpEnhanceOn = FALSE
    /\ hpMode = 70
    /\ finalBuffer = <<>>
    /\ hpRegions = <<>>
    /\ calls = <<>>
    /\ statusLog = <<>>
    /\ encodings = <<>>

\* An optional value: <<>> when undefined, <<v>> when given.
Undefined == <<>>
Some(v) == <<v>>

\* -Infinity dB: below every finite decibel value.
NegInf == -1000 * 1000

Min(a, b) == IF a < b THEN a ELSE b
Max(a, b) == IF a > b THEN a ELSE b
Abs(x) == IF x < 0 THEN -x ELSE x

\* Math.ceil(a / b) for a >= 0, b > 0.
CeilDiv(a, b) == (a + b - 1) \div b

\* Math.pow(10, db / 20), in tenths of a sample unit (value * 10 * SampleDen).
\* 10^(-35/20) = 0.01778... is irrational: 11654 is its floor in these units;
\* samples are whole units, so every comparison with a sample is exact.
DbToLinear(db) ==
    CASE db = NegInf -> 0
      [] db = -35 -> 11654
      [] db = -20 -> SampleDen
      [] db = 0 -> 10 * SampleDen

-----------------------------------------------------------------------------
(* Float32Array *)

Run(n, v0, dv) == [len |-> n, v0 |-> v0, dv |-> dv]

RECURSIVE ArrLength(_)
ArrLength(a) == IF a = <<>> THEN 0 ELSE Head(a).len + ArrLength(Tail(a))

\* a[p], for 0 <= p < a.length
RECURSIVE ArrAt(_, _)
ArrAt(a, p) ==
    IF p < Head(a).len THEN Head(a).v0 + p * Head(a).dv
    ELSE ArrAt(Tail(a), p - Head(a).len)

\* new Float32Array(n): zero-filled
ArrZeros(n) == IF n = 0 THEN <<>> ELSE <<Run(n, 0, 0)>>

\* The first n samples of a, 0 <= n <= a.length
RECURSIVE ArrTake(_, _)
ArrTake(a, n) ==
    IF n = 0 THEN <<>>
    ELSE IF n >= Head(a).len THEN <<Head(a)>> \o ArrTake(Tail(a), n - Head(a).len)
    ELSE <<Run(n, Head(a).v0, Head(a).dv)>>

\* a without its first n samples, 0 <= n <= a.length
RECURSIVE ArrDrop(_, _)
ArrDrop(a, n) ==
    IF n = 0 THEN a
    ELSE IF n >= Head(a).len THEN ArrDrop(Tail(a), n - Head(a).len)
    ELSE <<Run(Head(a).len - n, Head(a).v0 + n * Head(a).dv, Head(a).dv)>> \o Tail(a)

\* a.subarray(begin, end) for begin, end >= 0: both are clamped to a.length,
\* and the result is empty when end <= begin.
SubArray(a, begin, end) ==
    LET n == ArrLength(a)
        lo == Min(begin, n)
        hi == Min(end, n)
    IN  IF hi <= lo THEN <<>> ELSE ArrTake(ArrDrop(a, lo), hi - lo)

\* dst.set(src, at) throws a RangeError unless src fits.
SetFits(dst, src, at) == at + ArrLength(src) <= ArrLength(dst)

\* dst after dst.set(src, at), when src fits.
ArrSet(dst, src, at) ==
    ArrTake(dst, at) \o src \o ArrDrop(dst, at + ArrLength(src))

\* Indices where a run of a starts, and the index just before each.
RECURSIVE RunEdges(_, _)
RunEdges(a, at) ==
    IF a = <<>> THEN {}
    ELSE {at, at + Head(a).len - 1} \cup RunEdges(Tail(a), at + Head(a).len)

\* Same length and the same sample at every index.  Between two consecutive
\* run edges of a and b both arrays are arithmetic progressions, so they are
\* equal there iff they are equal at the first and the last index of the piece:
\* comparing at the edges of both arrays (and one before / after each other
\* array's edge) compares every index.
ArrEq(a, b) ==
    /\ ArrLength(a) = ArrLength(b)
    /\ LET n == ArrLength(a)
           e == RunEdges(a, 0) \cup RunEdges(b, 0)
           pts == {p \in e \cup {q - 1 : q \in e} \cup {q + 1 : q \in e} :
                     p >= 0 /\ p < n}
       IN  \A p \in pts : ArrAt(a, p) = ArrAt(b, p)

\* AudioBuffer
AudioBuffer(ch, n, rate, data) ==
    [numberOfChannels |-> ch, length |-> n, sampleRate |-> rate, data |-> data]

\* buffer.getChannelData(ch), ch 0-based
getChannelData(buf, ch) == buf.data[ch + 1]

\* Two buffers with the same shape and the same samples on every channel.
BufferEq(x, y) ==
    /\ x.numberOfChannels = y.numberOfChannels
    /\ x.length = y.length
    /\ \A ch \in 0..(x.numberOfChannels - 1) :
          ArrEq(getChannelData(x, ch), getChannelData(y, ch))

-----------------------------------------------------------------------------
(* removeSilence: parameters and locals *)

blockSize == 1024

\* Region
Region(start, end, isSilence) == [start |-> start, end |-> end, isSilence |-> isSilence]

\* Destructuring defaults of SilenceOptions.  Durations are in milliseconds,
\* removeRatio in percent.
DefaultThresholdDb == -35
DefaultMinSilenceMs == 100
DefaultPaddingMs == 50

OrDefault(v, d) == IF v = Undefined THEN d ELSE v[1]

thresholdDb == OrDefault(options.thresholdDb, DefaultThresholdDb)
minSilenceDuration == OrDefault(options.minSilenceDuration, DefaultMinSilenceMs)
padding == OrDefault(options.padding, DefaultPaddingMs)
removeRatio == options.removeRatio

threshold == DbToLinear(thresholdDb)
sampleRate == inputBuffer.sampleRate
\* Math.floor(seconds * sampleRate), seconds given in milliseconds
minSilenceSamples == (minSilenceDuration * sampleRate) \div 1000
paddingSamples == (padding * sampleRate) \div 1000
numChannels == inputBuffer.numberOfChannels
length == inputBuffer.length
numBlocks == CeilDiv(length, blockSize)

\* abs > threshold and abs < threshold, for a sample magnitude and a linear
\* threshold in tenths of a sample unit.
ExceedsThreshold(abs, thr) == 10 * abs > thr
\* A block at the threshold counted as silent: not the program's test.
BelowThreshold_Inclusive(abs, thr) == 10 * abs <= thr

BelowThreshold(abs, thr) == 10 * abs < thr

-----------------------------------------------------------------------------
(* removeSilence: block classification *)

\* Largest magnitude of an array piece.  Each run is an arithmetic progression,
\* whose magnitude is largest at one of its two ends.
RECURSIVE PieceMax(_)
PieceMax(a) ==
    IF a = <<>> THEN 0
    ELSE Max(Max(Abs(Head(a).v0), Abs(Head(a).v0 + (Head(a).len - 1) * Head(a).dv)),
             PieceMax(Tail(a)))

\* Magnitude of the first sample of a piece above the threshold; the piece is
\* known to hold one.
RECURSIVE FirstExceeding(_, _)
FirstExceeding(a, thr) ==
    LET r == Head(a)
        first == Abs(r.v0)
        last == Abs(r.v0 + (r.len - 1) * r.dv)
    IN  IF ExceedsThreshold(first, thr) THEN first
        ELSE IF ~ExceedsThreshold(last, thr) THEN FirstExceeding(Tail(a), thr)
        ELSE LET k == CHOOSE k \in 0..(r.len - 1) :
                        /\ ExceedsThreshold(Abs(r.v0 + k * r.dv), thr)
                        /\ \A j \in 0..(k - 1) : ~ExceedsThreshold(Abs(r.v0 + j * r.dv), thr)
             IN  Abs(r.v0 + k * r.dv)

\* The inner loop over one channel of block [start, end): maxAmp on leaving it.
\* The scan stops at the first sample that lifts maxAmp above the threshold.
ScanChannel(data, start, end, maxAmp, thr) ==
    LET piece == SubArray(data, start, end)
    IN  IF ExceedsThreshold(PieceMax(piece), thr) THEN FirstExceeding(piece, thr)
        ELSE Max(maxAmp, PieceMax(piece))

\* The loop over channels ch, ch + 1, ...: maxAmp on leaving it.
RECURSIVE ScanBlock(_, _, _, _, _)
ScanBlock(buf, ch, start, end, maxAmp) ==
    IF ch >= buf.numberOfChannels THEN maxAmp
    ELSE LET m == ScanChannel(getChannelData(buf, ch), start, end, maxAmp, threshold)
         IN  IF ExceedsThreshold(m, threshold) THEN m
             ELSE ScanBlock(buf, ch + 1, start, end, m)

\* Blocks b < n with b % 5000 === 0: the yields of the analysis loop.
AnalysisYields(n) == CeilDiv(n, 5000)

\* blockIsSilence[b] after the analysis loop
ClassifyBlock(b) ==
    LET start == b * blockSize
        end == Min(start + blockSize, length)
        maxAmp == ScanBlock(inputBuffer, 0, start, end, 0)
    IN  IF BelowThreshold(maxAmp, threshold) THEN 1 ELSE 0

-----------------------------------------------------------------------------
(* removeSilence: segmentation *)

\* End of the last region pushed after the merge loop.
LastRegionEnd == numBlocks * blockSize

\* blockIsSilence[b] === 1; reading past the end yields undefined
IsSil(flags, b) == b < Len(flags) /\ flags[b + 1] = 1

\* The merge loop from block b on: the regions it pushes, then the last region.
RECURSIVE SegmentLoop(_, _, _, _)
SegmentLoop(flags, b, currentStart, currentIsSilence) ==
    IF b >= Len(flags)
    THEN <<Region(currentStart * blockSize, LastRegionEnd, currentIsSilence)>>
    ELSE IF IsSil(flags, b) # currentIsSilence
    THEN <<Region(currentStart * blockSize, b * blockSize, currentIsSilence)>>
         \o SegmentLoop(flags, b + 1, b, IsSil(flags, b))
    ELSE SegmentLoop(flags, b + 1, currentStart, currentIsSilence)

Segment(flags) == SegmentLoop(flags, 1, 0, IsSil(flags, 0))

-----------------------------------------------------------------------------
(* removeSilence: padding *)

\* The shift without the clamp to the silent region's length: not the program's.
PadShift_Unclamped(pad, silent) == pad

\* Samples moved across one voiced / silent boundary.
PadShift(pad, silent) == Min(pad, silent.end - silent.start)

\* Forward sweep from index k (0-based) on.
RECURSIVE ForwardSweep(_, _)
ForwardSweep(rs, k) ==
    IF k >= Len(rs) - 1 THEN rs
    ELSE LET current == rs[k + 1]
             next == rs[k + 2]
             shift == PadShift(paddingSamples, next)
         IN  IF ~current.isSilence /\ next.isSilence
             THEN ForwardSweep([rs EXCEPT ![k + 1].end = @ + shift,
                                          ![k + 2].start = @ + shift], k + 1)
             ELSE ForwardSweep(rs, k + 1)

\* A backward sweep that moves the voiced start and leaves the silent end where
\* it was: not the program's.
RECURSIVE BackwardSweep_StartOnly(_, _)
BackwardSweep_StartOnly(rs, k) ==
    IF k <= 0 THEN rs
    ELSE LET current == rs[k + 1]
             prev == rs[k]
             shift == PadShift(paddingSamples, prev)
         IN  IF ~current.isSilence /\ prev.isSilence
             THEN BackwardSweep_StartOnly([rs EXCEPT ![k + 1].start = @ - shift], k - 1)
             ELSE BackwardSweep_StartOnly(rs, k - 1)

\* Backward sweep from index k (0-based) down.
RECURSIVE BackwardSweep(_, _)
BackwardSweep(rs, k) ==
    IF k <= 0 THEN rs
    ELSE LET current == rs[k + 1]
             prev == rs[k]
             shift == PadShift(paddingSamples, prev)
         IN  IF ~current.isSilence /\ prev.isSilence
             THEN BackwardSweep([rs EXCEPT ![k + 1].start = @ - shift,
                                           ![k].end = @ - shift], k - 1)
             ELSE BackwardSweep(rs, k - 1)

-----------------------------------------------------------------------------
(* removeSilence: splice plan *)

\* keepRatio of a non-empty region, in percent
KeepRatio(r) ==
    IF r.isSilence /\ r.end - r.start >= minSilenceSamples THEN 100 - removeRatio ELSE 100

\* Math.floor(regionLength * keepRatio)
KeepSamples(regionLength, keepRatio) == (regionLength * keepRatio) \div 100

\* A directive for every region, the empty ones too: not the program's.
PlanDirectives_NoSkip(rs, k) ==
    [j \in 1..(Len(rs) - k) |-> [regionIndex |-> k + j - 1, keepRatio |-> KeepRatio(rs[k + j])]]

\* The planning loop from region k (0-based) on: the directives it pushes.
RECURSIVE PlanDirectives(_, _)
PlanDirectives(rs, k) ==
    IF k >= Len(rs) THEN <<>>
    ELSE LET r == rs[k + 1]
             regionLength == r.end - r.start
         IN  IF regionLength <= 0 THEN PlanDirectives(rs, k + 1)
             ELSE <<[regionIndex |-> k, keepRatio |-> KeepRatio(r)]>>
                  \o PlanDirectives(rs, k + 1)

\* The planning loop from region k (0-based) on: what it adds to
\* outputSamplesCount.
RECURSIVE PlanCount(_, _)
PlanCount(rs, k) ==
    IF k >= Len(rs) THEN 0
    ELSE LET r == rs[k + 1]
             regionLength == r.end - r.start
         IN  IF regionLength <= 0 THEN PlanCount(rs, k + 1)
             ELSE KeepSamples(regionLength, KeepRatio(r)) + PlanCount(rs, k + 1)

\* The source range copied for a directive.
CopySource(inputData, r, keepRatio) ==
    IF keepRatio = 100 THEN SubArray(inputData, r.start, r.end)
    ELSE SubArray(inputData, r.start,
                  r.start + KeepSamples(r.end - r.start, keepRatio))

\* The cursor moved past the whole region whatever was kept: not the program's.
CursorAdvance_WholeRegion(r, keepRatio) == r.end - r.start

\* What writeCursor advances by for a directive.
CursorAdvance(r, keepRatio) ==
    IF keepRatio = 100 THEN r.end - r.start
    ELSE KeepSamples(r.end - r.start, keepRatio)

\* Progress reported on every channel: not the program's test.
ReportsProgress_EveryChannel(ch, k) == onProgress /\ k % 50 = 0

\* Whether the copy of directive k on channel ch reports progress.
ReportsProgress(ch, k) == ch = 0 /\ onProgress /\ k % 50 = 0

\* No filter at all: not the program's.
NonEmpty_KeepAll(rs) == rs

\* regions.filter(r => (r.end - r.start) > 0)
NonEmpty(rs) == SelectSeq(rs, LAMBDA r : r.end - r.start > 0)

-----------------------------------------------------------------------------
(* removeSilence: inputs *)

\* Block contents of channel 0, by kind.  "Q": a ramp 1..n (at most 1024 units,
\* below -20 dB).  "M": about 0.3 (above -20 dB, below 0 dB).  "E": a ramp
\* whose last sample is exactly 1.0.  Channel 1 holds the negated samples
\* minus one unit, so that an "E" block peaks just above 1.0 on channel 1.
BlockKinds == {"Q", "M", "E"}

BlockRun(kind, n, ch) ==
    LET v0 == CASE kind = "Q" -> 1
                [] kind = "M" -> 20000
                [] kind = "E" -> SampleDen - (n - 1)
    IN  IF ch = 0 THEN Run(n, v0, 1) ELSE Run(n, -v0 - 1, -1)

\* Frame counts of the last block: a full block, or a partial one.
LastBlockLens == {blockSize, 1000}

SampleRates == {8000}

\* The buffer with the given block kinds, whose last block has lastLen frames.
MakeBuffer(kinds, lastLen, ch, rate) ==
    LET n(b) == IF b = Len(kinds) THEN lastLen ELSE blockSize
    IN  AudioBuffer(ch, (Len(kinds) - 1) * blockSize + lastLen, rate,
                    [k \in 1..ch |-> [b \in 1..Len(kinds) |-> BlockRun(kinds[b], n(b), k - 1)]])

InputBuffers ==
    { MakeBuffer(kinds, lastLen, ch, rate) :
        kinds \in UNION {[1..nb -> BlockKinds] : nb \in 1..MaxBlocks},
        lastLen \in LastBlockLens, ch \in 1..2, rate \in SampleRates }

\* removeRatio in percent, thresholdDb in dB, durations in milliseconds.
SilenceOptionsSet ==
    [removeRatio : {0, 70, 100},
     thresholdDb : {Some(-20), Some(0)},
     minSilenceDuration : {Some(0), Some(200)},
     padding : {Some(0), Some(50), Some(200)}]

-----------------------------------------------------------------------------
(* removeSilence: the call *)

InitRS ==
    /\ pc = "start"
    /\ NoiseFloorIdle /\ Mp3Idle /\ AppIdle
    /\ yields = 0
    /\ buffer = Null
    /\ view = <<>>
    /\ offset = 0
    /\ pos = 0
    /\ gateThresholdDb = 0
    /\ aggressive = FALSE
    /\ envelope = <<0, 1>>
    /\ inputBuffer \in InputBuffers
    /\ options \in SilenceOptionsSet
    /\ onProgress \in BOOLEAN
    /\ blockIsSilence = <<>>
    /\ rawRegions = <<>>
    /\ regions = <<>>
    /\ outputSamplesCount = 0
    /\ regionDirectives = <<>>
    /\ outputBuffer = Null
    /\ c = 0
    /\ i = 0
    /\ writeCursor = 0
    /\ progressLog = <<>>
    /\ finalRegions = <<>>

\* Lines 422-446: the analysis loop over all blocks.
AnalyzeBlocks ==
    /\ pc = "start"
    /\ UNCHANGED extVars
    /\ UNCHANGED <<buffer, wavVars, gateVars>>
    /\ blockIsSilence' = [b \in 1..numBlocks |-> ClassifyBlock(b - 1)]
    /\ yields' = yields + AnalysisYields(numBlocks)
    /\ pc' = "analyzed"
    /\ UNCHANGED <<inputBuffer, options, onProgress, rawRegions, regions,
                   outputSamplesCount, regionDirectives, outputBuffer, c, i,
                   writeCursor, progressLog, finalRegions>>

\* Lines 454-474: merge equal neighbouring blocks into rawRegions.
SegmentRegions ==
    /\ pc = "analyzed"
    /\ UNCHANGED extVars
    /\ UNCHANGED <<buffer, wavVars, gateVars, yields>>
    /\ rawRegions' = Segment(blockIsSilence)
    /\ pc' = "segmented"
    /\ UNCHANGED <<inputBuffer, options, onProgress, blockIsSilence, regions,
                   outputSamplesCount, regionDirectives, outputBuffer, c, i,
                   writeCursor, progressLog, finalRegions>>

\* Lines 476-487: copy rawRegions and sweep forward.
PadForward ==
    /\ pc = "segmented"
    /\ UNCHANGED extVars
    /\ UNCHANGED <<buffer, wavVars, gateVars, yields>>
    /\ regions' = ForwardSweep(rawRegions, 0)
    /\ pc' = "paddedForward"
    /\ UNCHANGED <<inputBuffer, options, onProgress, blockIsSilence, rawRegions,
                   outputSamplesCount, regionDirectives, outputBuffer, c, i,
                   writeCursor, progressLog, finalRegions>>

\* Lines 489-498: sweep backward.
PadBackward ==
    /\ pc = "paddedForward"
    /\ UNCHANGED extVars
    /\ UNCHANGED <<buffer, wavVars, gateVars, yields>>
    /\ regions' = BackwardSweep(regions, Len(regions) - 1)
    /\ pc' = "padded"
    /\ UNCHANGED <<inputBuffer, options, onProgress, blockIsSilence, rawRegions,
                   outputSamplesCount, regionDirectives, outputBuffer, c, i,
                   writeCursor, progressLog, finalRegions>>

\* Lines 500-518: count the kept samples and list the directives.
PlanSplice ==
    /\ pc = "padded"
    /\ UNCHANGED extVars
    /\ UNCHANGED <<buffer, wavVars, gateVars, yields>>
    /\ outputSamplesCount' = PlanCount(regions, 0)
    /\ regionDirectives' = PlanDirectives(regions, 0)
    /\ pc' = "planned"
    /\ UNCHANGED <<inputBuffer, options, onProgress, blockIsSilence, rawRegions,
                   regions, outputBuffer, c, i, writeCursor, progressLog, finalRegions>>

\* Lines 520-526: createBuffer, which throws NotSupportedError for a frame
\* count of 0, and the start of the copy loop.
AllocateOutput ==
    /\ pc = "planned"
    /\ UNCHANGED extVars
    /\ UNCHANGED <<buffer, wavVars, gateVars, yields>>
    /\ IF outputSamplesCount = 0
       THEN /\ pc' = "threw"
            /\ UNCHANGED outputBuffer
       ELSE /\ outputBuffer' = AudioBuffer(numChannels, outputSamplesCount, sampleRate,
                                           [k \in 1..numChannels |-> ArrZeros(outputSamplesCount)])
            /\ pc' = "copy"
    /\ c' = 0
    /\ i' = 0
    /\ writeCursor' = 0
    /\ UNCHANGED <<inputBuffer, options, onProgress, blockIsSilence, rawRegions,
                   regions, outputSamplesCount, regionDirectives, progressLog,
                   finalRegions>>

\* The splice done in place, the kept samples moved to the front of the input
\* channel: not the program's.
CopyRegion_InPlace ==
    /\ pc = "copy"
    /\ UNCHANGED extVars
    /\ UNCHANGED <<buffer, wavVars, gateVars, yields, progressLog, outputBuffer>>
    /\ LET d == regionDirectives[i + 1]
           r == regions[d.regionIndex + 1]
           inputData == getChannelData(inputBuffer, c)
           src == CopySource(inputData, r, d.keepRatio)
           lastOfChannel == i + 1 >= Len(regionDirectives)
       IN  /\ inputBuffer' = [inputBuffer EXCEPT !.data[c + 1] = ArrSet(inputData, src, writeCursor)]
           /\ IF ~lastOfChannel
              THEN /\ i' = i + 1
                   /\ writeCursor' = writeCursor + CursorAdvance(r, d.keepRatio)
                   /\ UNCHANGED <<c, pc>>
              ELSE /\ i' = 0
                   /\ c' = c + 1
                   /\ writeCursor' = IF c + 1 < numChannels THEN 0
                                     ELSE writeCursor + CursorAdvance(r, d.keepRatio)
                   /\ pc' = IF c + 1 < numChannels THEN "copy" ELSE "copied"
    /\ UNCHANGED <<options, onProgress, blockIsSilence, rawRegions,
                   regions, outputSamplesCount, regionDirectives, finalRegions>>

\* Lines 528-549: one iteration of the copy loop (directive i on channel c),
\* with the loop control that follows it.
CopyRegion ==
    /\ pc = "copy"
    /\ UNCHANGED extVars
    /\ UNCHANGED <<buffer, wavVars, gateVars>>
    /\ LET d == regionDirectives[i + 1]
           r == regions[d.regionIndex + 1]
           src == CopySource(getChannelData(inputBuffer, c), r, d.keepRatio)
           outputData == getChannelData(outputBuffer, c)
           lastOfChannel == i + 1 >= Len(regionDirectives)
       IN  IF ~SetFits(outputData, src, writeCursor)
           THEN /\ pc' = "threw"
                /\ UNCHANGED <<outputBuffer, c, i, writeCursor, progressLog, yields>>
           ELSE /\ outputBuffer' = [outputBuffer EXCEPT
                                      !.data[c + 1] = ArrSet(outputData, src, writeCursor)]
                /\ progressLog' = IF ReportsProgress(c, i)
                                  THEN Append(progressLog, <<i, Len(regions)>>)
                                  ELSE progressLog
                /\ yields' = IF ReportsProgress(c, i) THEN yields + 1 ELSE yields
                /\ IF ~lastOfChannel
                   THEN /\ i' = i + 1
                        /\ writeCursor' = writeCursor + CursorAdvance(r, d.keepRatio)
                        /\ UNCHANGED <<c, pc>>
                   ELSE /\ i' = 0
                        /\ c' = c + 1
                        /\ writeCursor' = IF c + 1 < numChannels THEN 0
                                          ELSE writeCursor + CursorAdvance(r, d.keepRatio)
                        /\ pc' = IF c + 1 < numChannels THEN "copy" ELSE "copied"
    /\ UNCHANGED <<inputBuffer, options, onProgress, blockIsSilence, rawRegions,
                   regions, outputSamplesCount, regionDirectives, finalRegions>>

\* Lines 552-561: drop the empty regions and return.
ReturnResult ==
    /\ pc = "copied"
    /\ UNCHANGED extVars
    /\ UNCHANGED <<buffer, wavVars, gateVars, yields>>
    /\ finalRegions' = NonEmpty(regions)
    /\ pc' = "done"
    /\ UNCHANGED <<inputBuffer, options, onProgress, blockIsSilence, rawRegions,
                   regions, outputSamplesCount, regionDirectives, outputBuffer, c, i,
                   writeCursor, progressLog>>

NextRS ==
    \/ AnalyzeBlocks
    \/ SegmentRegions
    \/ PadForward
    \/ PadBackward
    \/ PlanSplice
    \/ AllocateOutput
    \/ CopyRegion
    \/ ReturnResult

Spec == InitRS /\ [][NextRS]_vars

-----------------------------------------------------------------------------
(* removeSilence with many regions: the progress callback *)

\* Inputs of SpecProgress alternate voiced and silent blocks, up to
\* ProgressBlocks of them, so that the copy loop passes directive 50.
ProgressBlocks == 52

AlternatingKinds(nb, first) ==
    [b \in 1..nb |-> IF (b % 2 = 1) = first THEN "M" ELSE "Q"]

ProgressBuffers ==
    { MakeBuffer(AlternatingKinds(nb, first), lastLen, ch, rate) :
        nb \in {ProgressBlocks - 1, ProgressBlocks}, first \in BOOLEAN,
        lastLen \in LastBlockLens, ch \in 1..2, rate \in SampleRates }

ProgressOptionsSet ==
    [removeRatio : {70, 100},
     thresholdDb : {Some(-20)},
     minSilenceDuration : {Some(0)},
     padding : {Some(0), Some(200)}]

InitProgress ==
    /\ pc = "start"
    /\ NoiseFloorIdle /\ Mp3Idle /\ AppIdle
    /\ yields = 0
    /\ buffer = Null
    /\ view = <<>>
    /\ offset = 0
    /\ pos = 0
    /\ gateThresholdDb = 0
    /\ aggressive = FALSE
    /\ envelope = <<0, 1>>
    /\ inputBuffer \in ProgressBuffers
    /\ options \in ProgressOptionsSet
    /\ onProgress \in BOOLEAN
    /\ blockIsSilence = <<>>
    /\ rawRegions = <<>>
    /\ regions = <<>>
    /\ outputSamplesCount = 0
    /\ regionDirectives = <<>>
    /\ outputBuffer = Null
    /\ c = 0
    /\ i = 0
    /\ writeCursor = 0
    /\ progressLog = <<>>
    /\ finalRegions = <<>>

SpecProgress == InitProgress /\ [][NextRS]_vars

-----------------------------------------------------------------------------
(* Claims about removeSilence *)

Segmented == pc \notin {"start", "analyzed"}
Padded == pc \in {"padded", "planned", "copy", "copied", "done", "threw"}

\* rs is ordered and contiguous, starts at 0 and ends at n.
CoversExactly(rs, n) ==
    /\ Len(rs) >= 1
    /\ rs[1].start = 0
    /\ rs[Len(rs)].end = n
    /\ \A k \in 1..Len(rs) : rs[k].start <= rs[k].end
    /\ \A k \in 1..(Len(rs) - 1) : rs[k].end = rs[k + 1].start

\* C1: for every input buffer, also one whose frame count is no multiple of
\* the block size, the regions produced by segmentation (before padding) are
\* ordered, contiguous, start at 0, and the last one ends at the frame count.
C1_SegmentationCoversBuffer == Segmented => CoversExactly(rawRegions, length)

\* C2: with removeRatio = 0 the returned buffer has the frame count of the
\* input and the same sample at every index of every channel.
C2_RemoveRatioZeroIsIdentity ==
    (pc = "done" /\ removeRatio = 0) => BufferEq(outputBuffer, inputBuffer)

\* The input samples of the voiced regions of rs, from region k (1-based) on,
\* concatenated in region order.
RECURSIVE VoicedSamples(_, _, _)
VoicedSamples(data, rs, k) ==
    IF k > Len(rs) THEN <<>>
    ELSE (IF rs[k].isSilence THEN <<>> ELSE SubArray(data, rs[k].start, rs[k].end))
         \o VoicedSamples(data, rs, k + 1)

\* C3: with removeRatio = 1 and minSilenceDuration = 0 the output holds no
\* sample of a region that is silent after padding: on every channel it is
\* exactly the samples of the voiced regions, concatenated in region order.
C3_FullRemovalKeepsExactlyVoiced ==
    (pc = "done" /\ removeRatio = 100 /\ minSilenceDuration = 0) =>
        \A ch \in 0..(numChannels - 1) :
            ArrEq(getChannelData(outputBuffer, ch),
                  VoicedSamples(getChannelData(inputBuffer, ch), regions, 1))

\* C4: after both padding sweeps no region has negative length, a silent
\* region's start has not passed its original end nor its end its original
\* start, and a voiced region has not grown past the original far boundary of
\* the silent neighbour it was extended into.
C4_PaddingKeepsBoundariesInRange ==
    Padded =>
        /\ Len(regions) = Len(rawRegions)
        /\ \A k \in 1..Len(regions) :
              /\ regions[k].isSilence = rawRegions[k].isSilence
              /\ regions[k].start <= regions[k].end
              /\ regions[k].isSilence =>
                    /\ regions[k].start >= rawRegions[k].start
                    /\ regions[k].start <= rawRegions[k].end
                    /\ regions[k].end <= rawRegions[k].end
                    /\ regions[k].end >= rawRegions[k].start
              /\ ~regions[k].isSilence =>
                    /\ regions[k].end >= rawRegions[k].end
                    /\ regions[k].end <= (IF k < Len(regions) THEN rawRegions[k + 1].end
                                          ELSE rawRegions[k].end)
                    /\ regions[k].start <= rawRegions[k].start
                    /\ regions[k].start >= (IF k > 1 THEN rawRegions[k - 1].start
                                            ELSE rawRegions[k].start)

\* C4 witness: both sweeps ran with a padding longer than a silent region
\* between two voiced ones, and the silent region was consumed entirely.
C4_Witness ==
    /\ pc = "padded"
    /\ \E k \in 2..(Len(regions) - 1) :
          /\ regions[k].isSilence
          /\ paddingSamples > rawRegions[k].end - rawRegions[k].start
          /\ regions[k].start = regions[k].end
          /\ regions[k - 1].end > rawRegions[k - 1].end

\* a/b <= x/y for positive b, y
RatLeq(p, q) == p[1] * q[2] <= q[1] * p[2]

\* C8: the values passed to the progress callback during one call never
\* decrease and all lie in [0, 1].
C8_ProgressMonotoneInUnitInterval ==
    /\ \A k \in 1..Len(progressLog) :
          /\ progressLog[k][2] > 0
          /\ RatLeq(<<0, 1>>, progressLog[k])
          /\ RatLeq(progressLog[k], <<1, 1>>)
    /\ \A k \in 1..(Len(progressLog) - 1) : RatLeq(progressLog[k], progressLog[k + 1])

\* C8 witness: a finished call on a two-channel buffer that reported progress
\* twice, the second value above the first.
C8_Witness ==
    /\ pc = "done"
    /\ numChannels = 2
    /\ Len(progressLog) >= 2
    /\ ~RatLeq(progressLog[2], progressLog[1])

-----------------------------------------------------------------------------
(* bufferToWav: the DataView and its writers *)

\* bufferToWav inputs have 1..MaxWavFrames frames, besides the long ones that
\* span several chunks.
MaxWavFrames == 3

HeaderBytes == 44
wavChunkSize == 4096
NegScale == 32768
PosScale == 32767

\* The strings of the header, as the char codes setUint8 stores.
RIFF == <<82, 73, 70, 70>>
WAVE == <<87, 65, 86, 69>>
FMT == <<102, 109, 116, 32>>
DATA == <<100, 97, 116, 97>>

\* floor(a * k / d) for a, k >= 0 and d > 0, without forming a * k when a >= d.
MulDiv(a, k, d) == (a \div d) * k + ((a % d) * k) \div d

\* The bytes of setUint32(_, d, true) and setUint16(_, d, true), 0 <= d < 2^31.
Uint32Bytes(d) == <<d % 256, (d \div 256) % 256, (d \div 65536) % 256, (d \div 16777216) % 256>>
Uint16Bytes(d) == <<d % 256, (d \div 256) % 256>>

\* The bytes of setInt16(_, x, true): x modulo 2^16, low byte first.
Int16Bytes(x) == <<(x % 65536) % 256, (x % 65536) \div 256>>

\* getUint32 / getUint16 / getInt16 (_, true) at byte offset at.
Uint32At(v, at) == v[at + 1] + 256 * v[at + 2] + 65536 * v[at + 3] + 16777216 * v[at + 4]
Uint16At(v, at) == v[at + 1] + 256 * v[at + 2]
Int16At(v, at) == IF Uint16At(v, at) >= 32768 THEN Uint16At(v, at) - 65536 ELSE Uint16At(v, at)

\* A DataView with the write offset of the closures; ok is false once a
\* setter has thrown a RangeError.
WriteBytes(st, bytes) ==
    IF ~st.ok \/ st.offset + Len(bytes) > Len(st.view) THEN [st EXCEPT !.ok = FALSE]
    ELSE [view |-> SubSeq(st.view, 1, st.offset) \o bytes
                   \o SubSeq(st.view, st.offset + Len(bytes) + 1, Len(st.view)),
          offset |-> st.offset + Len(bytes),
          ok |-> TRUE]

writeString(st, str) == WriteBytes(st, str)
writeUint32(st, d) == WriteBytes(st, Uint32Bytes(d))
writeUint16(st, d) == WriteBytes(st, Uint16Bytes(d))

numOfChan == buffer.numberOfChannels
wavLength == buffer.length * numOfChan * 2 + HeaderBytes

\* new DataView(new ArrayBuffer(length)): zero-filled
NewView(n) == [k \in 1..n |-> 0]

\* Lines 307-319: the thirteen header writes, in order.
WriteHeader(st0) ==
    LET h1 == writeString(st0, RIFF)
        h2 == writeUint32(h1, wavLength - 8)
        h3 == writeString(h2, WAVE)
        h4 == writeString(h3, FMT)
        h5 == writeUint32(h4, 16)
        h6 == writeUint16(h5, 1)
        h7 == writeUint16(h6, numOfChan)
        h8 == writeUint32(h7, buffer.sampleRate)
        h9 == writeUint32(h8, buffer.sampleRate * 2 * numOfChan)
        h10 == writeUint16(h9, numOfChan * 2)
        h11 == writeUint16(h10, 16)
        h12 == writeString(h11, DATA)
    IN  writeUint32(h12, wavLength - h12.offset - 4)

\* Line 332: Math.max(-1, Math.min(1, x))
Clamp(x) == Max(-SampleDen, Min(SampleDen, x))

\* Both scales for every sample: not the program's conversion.
Pcm16_Symmetric(x) ==
    IF Clamp(x) < 0 THEN -MulDiv(-Clamp(x), NegScale, SampleDen)
    ELSE MulDiv(Clamp(x), NegScale, SampleDen)

\* Lines 332-333: the clamp, then (0.5 + sample < 0 ? sample * 32768 :
\* sample * 32767) | 0.  The addition binds tighter than the comparison, so
\* the test is (0.5 + sample) < 0; | 0 truncates toward zero.
Pcm16(x) ==
    LET sample == Clamp(x)
        scale == IF SampleDen + 2 * sample < 0 THEN NegScale ELSE PosScale
    IN  IF sample < 0 THEN -MulDiv(-sample, scale, SampleDen)
        ELSE MulDiv(sample, scale, SampleDen)

\* Channel 0 whatever the channel asked for: not the program's indexing.
ChannelSample_FirstChannel(ch, p) == ArrAt(getChannelData(buffer, 0), p)

\* channels[i][pos]
ChannelSample(ch, p) == ArrAt(getChannelData(buffer, ch), p)

\* Lines 330-337: the bytes of the frames p0 .. end - 1, channel after channel
\* within a frame, two bytes per sample: byte b belongs to sample b \div 2,
\* that is frame p0 + (b \div 2) \div C, channel (b \div 2) % C.
FrameBytes(p0, end) ==
    [k \in 1..(2 * (end - p0) * numOfChan) |->
        LET b == k - 1
        IN  Int16Bytes(Pcm16(ChannelSample((b \div 2) % numOfChan,
                                           p0 + (b \div 2) \div numOfChan)))[(b % 2) + 1]]

\* The view after these bytes were written at off, one setInt16 after the other.
EncodeFrames(v, off, p0, end) ==
    SubSeq(v, 1, off) \o FrameBytes(p0, end)
        \o SubSeq(v, off + 2 * (end - p0) * numOfChan + 1, Len(v))

\* setInt16 throws a RangeError when the two bytes do not fit.
FramesFit(v, off, p0, end) == off + 2 * (end - p0) * numOfChan <= Len(v)

-----------------------------------------------------------------------------
(* bufferToWav: inputs *)

WavStarts == {-98304, -SampleDen, -32769, -16384, -1, SampleDen - 1}
WavSlopes == {0, 1, 16385}
WavRates == {8000, 44100}

WavChannels(n) == {<<Run(n, v0, dv)>> : v0 \in WavStarts, dv \in WavSlopes}

ShortWavBuffers ==
    UNION {{AudioBuffer(1, n, r, <<a>>) : a \in WavChannels(n)} \cup
           {AudioBuffer(2, n, r, <<a, b>>) : a \in WavChannels(n), b \in WavChannels(n)} :
           n \in 1..MaxWavFrames, r \in WavRates}

\* Buffers of more than one chunk, and one of exactly ten chunks.
LongWavBuffers ==
    {AudioBuffer(1, wavChunkSize + 1, 8000, <<<<Run(wavChunkSize + 1, -40000, 20)>>>>),
     AudioBuffer(2, wavChunkSize + 1, 44100, <<<<Run(wavChunkSize + 1, -40000, 20)>>,
                                               <<Run(wavChunkSize + 1, 70000, -35)>>>>),
     AudioBuffer(1, 10 * wavChunkSize, 8000, <<<<Run(10 * wavChunkSize, -40000, 2)>>>>)}

WavBuffers == ShortWavBuffers \cup LongWavBuffers

-----------------------------------------------------------------------------
(* bufferToWav: the call *)

InitWav ==
    /\ pc = "wavStart"
    /\ NoiseFloorIdle /\ Mp3Idle /\ AppIdle
    /\ yields = 0
    /\ buffer \in WavBuffers
    /\ view = <<>>
    /\ offset = 0
    /\ pos = 0
    /\ gateThresholdDb = 0
    /\ aggressive = FALSE
    /\ envelope = <<0, 1>>
    /\ inputBuffer = Null
    /\ options = Null
    /\ onProgress = FALSE
    /\ blockIsSilence = <<>>
    /\ rawRegions = <<>>
    /\ regions = <<>>
    /\ outputSamplesCount = 0
    /\ regionDirectives = <<>>
    /\ outputBuffer = Null
    /\ c = 0
    /\ i = 0
    /\ writeCursor = 0
    /\ progressLog = <<>>
    /\ finalRegions = <<>>

\* Lines 282-326: allocate the view, write the header, start the frame loop.
WavWriteHeader ==
    /\ pc = "wavStart"
    /\ UNCHANGED extVars
    /\ LET st == WriteHeader([view |-> NewView(wavLength), offset |-> 0, ok |-> TRUE])
       IN  /\ view' = st.view
           /\ offset' = st.offset
           /\ pc' = IF st.ok THEN "wavFrames" ELSE "threw"
    /\ pos' = 0
    /\ UNCHANGED <<yields, buffer, rsVars, gateVars>>

\* Lines 328-339: one iteration of the while loop, a chunk of frames and the
\* yield that follows every tenth full chunk.
WavEncodeChunk ==
    /\ pc = "wavFrames"
    /\ UNCHANGED extVars
    /\ pos < buffer.length
    /\ LET end == Min(pos + wavChunkSize, buffer.length)
       IN  IF ~FramesFit(view, offset, pos, end)
           THEN /\ pc' = "threw"
                /\ UNCHANGED <<view, offset, pos, yields>>
           ELSE /\ view' = EncodeFrames(view, offset, pos, end)
                /\ offset' = offset + 2 * (end - pos) * numOfChan
                /\ pos' = end
                /\ yields' = IF end % (wavChunkSize * 10) = 0 THEN yields + 1 ELSE yields
                /\ UNCHANGED pc
    /\ UNCHANGED <<buffer, rsVars, gateVars>>

\* Line 341: the loop is over, the bytes become the Blob.
WavReturn ==
    /\ pc = "wavFrames"
    /\ UNCHANGED extVars
    /\ pos >= buffer.length
    /\ pc' = "wavDone"
    /\ UNCHANGED <<yields, buffer, wavVars, rsVars, gateVars>>

NextWav ==
    \/ WavWriteHeader
    \/ WavEncodeChunk
    \/ WavReturn

SpecWav == InitWav /\ [][NextWav]_vars

-----------------------------------------------------------------------------
(* bufferToWav: claims *)

\* The 16-bit value stored for frame p, channel ch of the finished payload.
Stored(ch, p) == Int16At(view, HeaderBytes + 2 * (p * numOfChan + ch))

Frames == 0..(buffer.length - 1)
Channels == 0..(numOfChan - 1)

\* C5: every sample is clamped to [-1, 1], every negative sample is scaled by
\* 32768 and every non-negative one by 32767 (truncated), and the value written
\* lies in [-32768, 32767].
C5_NegativeBy32768NonNegativeBy32767 ==
    pc = "wavDone" =>
        \A p \in Frames : \A ch \in Channels :
            LET sample == Clamp(ChannelSample(ch, p))
            IN  /\ Stored(ch, p) >= -32768
                /\ Stored(ch, p) <= 32767
                /\ Stored(ch, p) = IF sample < 0
                                   THEN -MulDiv(-sample, 32768, SampleDen)
                                   ELSE MulDiv(sample, 32767, SampleDen)

\* The distance between the sample n / SampleDen and the decoded value
\* v / 32768, in units of 1 / SampleDen; one LSB is SampleDen / 32768 of them.
RoundTripError(n, v) == Abs((SampleDen \div 32768) * v - n)
LSB == SampleDen \div 32768

InRange(n) == n >= -SampleDen /\ n <= SampleDen

\* C6 as stated: every sample in [-1, 1] is reconstructed from its 16-bit
\* value with an error of at most 1 LSB.
C6_RoundTripWithinOneLSB ==
    pc = "wavDone" =>
        \A p \in Frames : \A ch \in Channels :
            InRange(ChannelSample(ch, p)) =>
                RoundTripError(ChannelSample(ch, p), Stored(ch, p)) <= LSB

\* C6, amended: every sample in [-1, 1] is reconstructed from its 16-bit
\* value with an error below 2 LSB.
C6_RoundTripBelowTwoLSB ==
    pc = "wavDone" =>
        \A p \in Frames : \A ch \in Channels :
            InRange(ChannelSample(ch, p)) =>
                RoundTripError(ChannelSample(ch, p), Stored(ch, p)) < 2 * LSB

\* C6 witness: a finished payload holding a sample of [-1, 1] whose
\* reconstruction is more than 1 LSB off.
C6_Witness ==
    /\ pc = "wavDone"
    /\ \E p \in Frames : \E ch \in Channels :
          /\ InRange(ChannelSample(ch, p))
          /\ RoundTripError(ChannelSample(ch, p), Stored(ch, p)) > LSB

\* C7: the payload has 44 + 2*F*C bytes from the header on; the write offset
\* never passes its end and ends exactly at it; the header records the channel
\* count, the sample rate, the byte rate sampleRate*2*C, the data length 2*F*C
\* and the RIFF size total - 8; frame p, channel c is stored at byte offset
\* 44 + 2*(p*C + c).
C7_HeaderAndInterleavedLayout ==
    /\ pc \in {"wavFrames", "wavDone"} =>
          /\ Len(view) = 44 + 2 * buffer.length * numOfChan
          /\ offset <= Len(view)
          /\ offset = 44 + 2 * pos * numOfChan
          /\ SubSeq(view, 1, 4) = RIFF
          /\ Uint32At(view, 4) = Len(view) - 8
          /\ SubSeq(view, 9, 12) = WAVE
          /\ SubSeq(view, 13, 16) = FMT
          /\ Uint32At(view, 16) = 16
          /\ Uint16At(view, 20) = 1
          /\ Uint16At(view, 22) = numOfChan
          /\ Uint32At(view, 24) = buffer.sampleRate
          /\ Uint32At(view, 28) = buffer.sampleRate * 2 * numOfChan
          /\ Uint16At(view, 32) = 2 * numOfChan
          /\ Uint16At(view, 34) = 16
          /\ SubSeq(view, 37, 40) = DATA
          /\ Uint32At(view, 40) = 2 * buffer.length * numOfChan
    /\ pc = "wavDone" =>
          /\ offset = Len(view)
          /\ \A p \in Frames : \A ch \in Channels :
                Int16At(view, 44 + 2 * (p * numOfChan + ch))
                    = Pcm16(ArrAt(getChannelData(buffer, ch), p))

\* C7 witness: the finished payload of a two-channel buffer of more than one
\* chunk whose channels differ in a frame of the second chunk.
C7_Witness ==
    /\ pc = "wavDone"
    /\ numOfChan = 2
    /\ buffer.length > wavChunkSize
    /\ offset = 44 + 2 * buffer.length * 2
    /\ \E p \in Frames : p >= wavChunkSize /\ Stored(0, p) # Stored(1, p)

-----------------------------------------------------------------------------
(* applyNoiseGate: numbers *)

\* applyNoiseGate inputs have 1..MaxGateFrames frames.
MaxGateFrames == 3

\* Rationals <<n, d>> with d > 0, in lowest terms.
RECURSIVE GCD(_, _)
GCD(a, b) == IF b = 0 THEN a ELSE GCD(b, a % b)

Rat(n, d) == IF n = 0 THEN <<0, 1>> ELSE <<n \div GCD(Abs(n), d), d \div GCD(Abs(n), d)>>
RatLess(p, q) == p[1] * q[2] < q[1] * p[2]

\* Math.exp(-1 / x) is irrational for every x the program forms; the model
\* takes its floor in units of 1 / CoeffDen, a coefficient strictly between 0
\* and 1 as the true one: 16 * exp(-1/8) = 14.1..., and 15 <= 16 * exp(-1/x)
\* < 16 for x >= 16.
CoeffDen == 16
ExpNegInv(x) == CASE x >= 16 -> 15 [] x >= 8 /\ x < 16 -> 14

\* Milliseconds of the attack and release times.
attackTime == IF aggressive THEN 1 ELSE 10
releaseTime == IF aggressive THEN 50 ELSE 200

attackCoeff == ExpNegInv((buffer.sampleRate * attackTime) \div 1000)
releaseCoeff == ExpNegInv((buffer.sampleRate * releaseTime) \div 1000)

\* Math.pow(10, thresholdDb / 20) as a rational.
gateThreshold == Rat(DbToLinear(gateThresholdDb), 10 * SampleDen)

gateChunkSize == 48000

\* coeff * envelope + (1 - coeff) * absInput, coeff in units of 1 / CoeffDen
Smooth(coeff, env, absInput) ==
    Rat(coeff * env[1] * absInput[2] + (CoeffDen - coeff) * absInput[1] * env[2],
        CoeffDen * env[2] * absInput[2])

\* Lines 133-137
FollowEnvelope(env, absInput) ==
    IF RatLess(env, absInput) THEN Smooth(attackCoeff, env, absInput)
    ELSE Smooth(releaseCoeff, env, absInput)

\* The tests envelope <= threshold and envelope > threshold: not the program's.
BelowGate_Inclusive(env, thr) == ~RatLess(thr, env)
BelowGate_Above(env, thr) == RatLess(thr, env)

\* Line 140: envelope < threshold
BelowGate(env, thr) == RatLess(env, thr)

\* A gain (num / den) ^ exp.  den = 0 is the division by a zero threshold:
\* NaN when num = 0 too, Infinity otherwise.
UnityGain == [num |-> 1, den |-> 1, exp |-> 1]

\* Lines 139-150
Gain(env, thr) ==
    IF BelowGate(env, thr)
    THEN [num |-> env[1] * thr[2], den |-> env[2] * thr[1],
          exp |-> IF aggressive THEN 12 ELSE 3]
    ELSE UnityGain

\* Line 152: the product input * gain, kept as its two factors.
Product(input, gain) == [input |-> input, gain |-> gain]

GainIsFinite(g) == g.den # 0
GainIsOne(g) == g.den # 0 /\ g.num = g.den
GainBelowOne(g) == g.den # 0 /\ g.num >= 0 /\ g.num < g.den

\* The product is the input sample itself / is zero.  A product of reals is
\* zero only when a factor is; NaN and Infinity times anything is neither.
EqualsInput(o) == GainIsOne(o.gain) \/ (GainIsFinite(o.gain) /\ o.input = 0)
IsZero(o) == GainIsFinite(o.gain) /\ (o.input = 0 \/ o.gain.num = 0)

-----------------------------------------------------------------------------
(* applyNoiseGate: inputs *)

GateStarts == {0, 16384, -49152, 98304}
GateSlopes == {0, -16384, 32768}
GateThresholds == {NegInf, -20, 0}

GateChannels(n) == {<<Run(n, v0, dv)>> : v0 \in GateStarts, dv \in GateSlopes}

GateBuffers ==
    UNION {{AudioBuffer(1, n, 8000, <<a>>) : a \in GateChannels(n)} \cup
           {AudioBuffer(2, n, 8000, <<a, b>>) : a \in GateChannels(n), b \in GateChannels(n)} :
           n \in 1..MaxGateFrames}

-----------------------------------------------------------------------------
(* applyNoiseGate: the call *)

InitGate ==
    /\ pc = "gateStart"
    /\ NoiseFloorIdle /\ Mp3Idle /\ AppIdle
    /\ yields = 0
    /\ buffer \in GateBuffers
    /\ gateThresholdDb \in GateThresholds
    /\ aggressive \in BOOLEAN
    /\ envelope = <<0, 1>>
    /\ view = <<>>
    /\ offset = 0
    /\ pos = 0
    /\ inputBuffer = Null
    /\ options = Null
    /\ onProgress = FALSE
    /\ blockIsSilence = <<>>
    /\ rawRegions = <<>>
    /\ regions = <<>>
    /\ outputSamplesCount = 0
    /\ regionDirectives = <<>>
    /\ outputBuffer = Null
    /\ c = 0
    /\ i = 0
    /\ writeCursor = 0
    /\ progressLog = <<>>
    /\ finalRegions = <<>>

gateUnused == <<inputBuffer, options, onProgress, blockIsSilence, rawRegions, regions,
                outputSamplesCount, regionDirectives, writeCursor, progressLog,
                finalRegions>>

\* Lines 105-127: the zero-filled output buffer and the start of the loops.
GateAllocate ==
    /\ pc = "gateStart"
    /\ UNCHANGED extVars
    /\ outputBuffer' = AudioBuffer(buffer.numberOfChannels, buffer.length, buffer.sampleRate,
                                   [ch \in 1..buffer.numberOfChannels |->
                                       [k \in 1..buffer.length |-> Product(0, UnityGain)]])
    /\ c' = 0
    /\ i' = 0
    /\ envelope' = <<0, 1>>
    /\ pc' = "gateLoop"
    /\ UNCHANGED <<yields, buffer, gateThresholdDb, aggressive, wavVars, gateUnused>>

\* The envelope carried over from one channel into the next: not the program's.
GateSample_EnvelopeCarried ==
    /\ pc = "gateLoop"
    /\ UNCHANGED extVars
    /\ c < buffer.numberOfChannels
    /\ LET input == ArrAt(getChannelData(buffer, c), i)
           absInput == Rat(Abs(input), SampleDen)
           env == FollowEnvelope(envelope, absInput)
       IN  /\ outputBuffer' = [outputBuffer EXCEPT
                                 !.data[c + 1][i + 1] = Product(input, Gain(env, gateThreshold))]
           /\ envelope' = env
    /\ yields' = IF i % gateChunkSize = 0 THEN yields + 1 ELSE yields
    /\ IF i + 1 < buffer.length
       THEN i' = i + 1 /\ c' = c
       ELSE i' = 0 /\ c' = c + 1
    /\ UNCHANGED <<pc, buffer, gateThresholdDb, aggressive, wavVars, gateUnused>>

\* Lines 129-155: sample i of channel c, and the loop control that follows.
GateSample ==
    /\ pc = "gateLoop"
    /\ UNCHANGED extVars
    /\ c < buffer.numberOfChannels
    /\ LET input == ArrAt(getChannelData(buffer, c), i)
           absInput == Rat(Abs(input), SampleDen)
           env == FollowEnvelope(envelope, absInput)
       IN  /\ outputBuffer' = [outputBuffer EXCEPT
                                 !.data[c + 1][i + 1] = Product(input, Gain(env, gateThreshold))]
           /\ envelope' = IF i + 1 < buffer.length THEN env ELSE <<0, 1>>
    /\ yields' = IF i % gateChunkSize = 0 THEN yields + 1 ELSE yields
    /\ IF i + 1 < buffer.length
       THEN i' = i + 1 /\ c' = c
       ELSE i' = 0 /\ c' = c + 1
    /\ UNCHANGED <<pc, buffer, gateThresholdDb, aggressive, wavVars, gateUnused>>

\* Line 158
GateReturn ==
    /\ pc = "gateLoop"
    /\ UNCHANGED extVars
    /\ c >= buffer.numberOfChannels
    /\ pc' = "gateDone"
    /\ UNCHANGED <<yields, buffer, gateVars, wavVars, rsVars>>

NextGate ==
    \/ GateAllocate
    \/ GateSample
    \/ GateReturn

SpecGate == InitGate /\ [][NextGate]_vars

-----------------------------------------------------------------------------
(* applyNoiseGate: claims *)

GateFrames == 0..(buffer.length - 1)
GateChannelIds == 0..(buffer.numberOfChannels - 1)

Out(ch, k) == outputBuffer.data[ch + 1][k + 1]
In(ch, k) == ArrAt(getChannelData(buffer, ch), k)

\* The peak absolute sample of the buffer is below full scale.
PeakBelowFullScale == \A ch \in GateChannelIds : \A k \in GateFrames : Abs(In(ch, k)) < SampleDen

\* C9: with a threshold of minus infinity dB every output sample equals the
\* input sample, on every channel, in normal and in aggressive mode.
C9_GateAtMinusInfinityIsIdentity ==
    (pc = "gateDone" /\ gateThresholdDb = NegInf) =>
        /\ outputBuffer.numberOfChannels = buffer.numberOfChannels
        /\ outputBuffer.length = buffer.length
        /\ \A ch \in GateChannelIds : \A k \in GateFrames :
              /\ Out(ch, k).input = In(ch, k)
              /\ EqualsInput(Out(ch, k))

\* C9 witness: a finished aggressive run at minus infinity dB on a two-channel
\* buffer with a silent first sample and a non-zero later one.
C9_Witness ==
    /\ pc = "gateDone"
    /\ gateThresholdDb = NegInf
    /\ aggressive
    /\ buffer.numberOfChannels = 2
    /\ buffer.length >= 2
    /\ In(0, 0) = 0
    /\ In(0, 1) # 0
    /\ EqualsInput(Out(0, 1))

-----------------------------------------------------------------------------
(* getNoiseFloor *)

\* getNoiseFloor inputs have 0..MaxSeconds seconds of channel 0, besides the
\* long ones.
MaxSeconds == 2

FallbackDb == -60

\* Math.floor(sampleRate * 0.05)
windowSize == (buffer.sampleRate * 5) \div 100
hopSize == buffer.sampleRate

\* Sum of the squares of the n samples v0, v0 + dv, ..., as numerators:
\* n v0^2 + v0 dv n (n - 1) + dv^2 (n - 1) n (2n - 1) / 6.
RunSumSq(r) ==
    r.len * r.v0 * r.v0 + r.v0 * r.dv * r.len * (r.len - 1)
        + (r.dv * r.dv * (r.len - 1) * r.len * (2 * r.len - 1)) \div 6

RECURSIVE ArrSumSq(_)
ArrSumSq(a) == IF a = <<>> THEN 0 ELSE RunSumSq(Head(a)) + ArrSumSq(Tail(a))

\* Lines 71-78: sum and count of the window that starts at sample w.
WindowCount(data, w) == Max(0, Min(windowSize, ArrLength(data) - w))
WindowSum(data, w) == ArrSumSq(SubArray(data, w, w + WindowCount(data, w)))

\* Any non-zero window: not the program's test.
AboveSilenceFloor_NonZero(sum, count) == sum > 0

\* Line 82: Math.sqrt(sum / count) > 0.000001 for the sum of squared
\* numerators, that is sum / count > (SampleDen / 10^6)^2 = 2^20 / 5^12.
\* Windows have fewer than 2048 samples, so count * 2^20 < 9 * 5^12.
AboveSilenceFloor(sum, count) ==
    sum >= 9 \/ sum * 244140625 > count * 1048576

\* a - b of the comparator of line 91, on mean squares <<sum, count>>.
QuieterThan(a, b) == a[1] * b[2] < b[1] * a[2]

\* Lines 88-97.  A value other than the fallback is 20 log10 of the root of
\* the mean square ms (over SampleDen), kept as that mean square.
NoiseFloorOf(values) ==
    IF Len(values) = 0 THEN [kind |-> "fallback", db |-> FallbackDb, ms |-> <<0, 1>>]
    ELSE LET sorted == SortSeq(values, QuieterThan)
             p10Index == Len(values) \div 10
         IN  [kind |-> "log10", db |-> 0, ms |-> sorted[p10Index + 1]]

\* One second of channel 0: zeros, a single smallest sample among zeros, a
\* constant quiet level, a louder decaying one; n is its length.
SecondKinds == {"Z", "S", "Q", "L"}
SecondRun(kind, n) ==
    CASE kind = "Z" -> <<Run(n, 0, 0)>>
      [] kind = "S" -> IF n = 1 THEN <<Run(1, 1, 0)>> ELSE <<Run(1, 1, 0), Run(n - 1, 0, 0)>>
      [] kind = "Q" -> <<Run(n, 3, 0)>>
      [] kind = "L" -> IF n <= 20 THEN <<Run(n, 40, -1)>>
                       ELSE <<Run(20, 40, -1), Run(n - 20, 20, 0)>>

RECURSIVE SecondsData(_, _, _)
SecondsData(kinds, rate, lastLen) ==
    IF kinds = <<>> THEN <<>>
    ELSE IF Len(kinds) = 1 THEN SecondRun(kinds[1], lastLen)
    ELSE SecondRun(kinds[1], rate) \o SecondsData(Tail(kinds), rate, lastLen)

NoiseRates == {8000, 22050}
LastSecondLens(rate) == {1, (rate * 5) \div 100, rate}

\* Channel 1, which getNoiseFloor never reads, is loud throughout.
NoiseBuffer(ch, kinds, rate, lastLen) ==
    LET data == SecondsData(kinds, rate, lastLen)
        n == ArrLength(data)
    IN  AudioBuffer(ch, n, rate,
                    IF ch = 1 THEN <<data>> ELSE <<data, IF n = 0 THEN <<>> ELSE <<Run(n, 30, 0)>>>>)

\* Eleven windows, so that the tenth percentile is the second quietest.
LongNoiseKinds == {<<"L", "Q", "Z", "L", "L", "S", "L", "Q", "L", "L", "L", "L", "L">>,
                   <<"Q", "L", "L", "L", "L", "L", "L", "L", "L", "L", "L">>}

NoiseBuffers ==
    UNION {{NoiseBuffer(ch, kinds, rate, lastLen) :
               kinds \in UNION {[1..n -> SecondKinds] : n \in 0..MaxSeconds} \cup LongNoiseKinds,
               lastLen \in LastSecondLens(rate)} :
           ch \in 1..2, rate \in NoiseRates}

InitNoiseFloor ==
    /\ pc = "nfStart"
    /\ yields = 0
    /\ buffer \in NoiseBuffers
    /\ rmsValues = <<>>
    /\ noiseFloor = Null
    /\ Mp3Idle /\ AppIdle
    /\ view = <<>>
    /\ offset = 0
    /\ pos = 0
    /\ gateThresholdDb = 0
    /\ aggressive = FALSE
    /\ envelope = <<0, 1>>
    /\ inputBuffer = Null
    /\ options = Null
    /\ onProgress = FALSE
    /\ blockIsSilence = <<>>
    /\ rawRegions = <<>>
    /\ regions = <<>>
    /\ outputSamplesCount = 0
    /\ regionDirectives = <<>>
    /\ outputBuffer = Null
    /\ c = 0
    /\ i = 0
    /\ writeCursor = 0
    /\ progressLog = <<>>
    /\ finalRegions = <<>>

nfUnused == <<yields, buffer, wavVars, gateVars, mp3Vars, appVars, inputBuffer, options,
              onProgress, blockIsSilence, rawRegions, regions, outputSamplesCount,
              regionDirectives, outputBuffer, c, writeCursor, progressLog, finalRegions>>

\* Lines 60-68
NoiseFloorEnter ==
    /\ pc = "nfStart"
    /\ rmsValues' = <<>>
    /\ i' = 0
    /\ pc' = "nfWindows"
    /\ UNCHANGED <<noiseFloor, nfUnused>>

\* Lines 70-86: the window that starts at sample i.
NoiseFloorWindow ==
    /\ pc = "nfWindows"
    /\ i < ArrLength(getChannelData(buffer, 0))
    /\ LET data == getChannelData(buffer, 0)
           sum == WindowSum(data, i)
           count == WindowCount(data, i)
       IN  rmsValues' = IF count > 0 /\ AboveSilenceFloor(sum, count)
                        THEN Append(rmsValues, <<sum, count>>)
                        ELSE rmsValues
    /\ i' = i + hopSize
    /\ UNCHANGED <<pc, noiseFloor, nfUnused>>

\* Lines 88-97
NoiseFloorReturn ==
    /\ pc = "nfWindows"
    /\ i >= ArrLength(getChannelData(buffer, 0))
    /\ noiseFloor' = NoiseFloorOf(rmsValues)
    /\ pc' = "nfDone"
    /\ UNCHANGED <<rmsValues, i, nfUnused>>

NextNoiseFloor ==
    \/ NoiseFloorEnter
    \/ NoiseFloorWindow
    \/ NoiseFloorReturn

SpecNoiseFloor == InitNoiseFloor /\ [][NextNoiseFloor]_vars

\* The starts of the analysis windows of the buffer.
WindowStarts ==
    {w \in 0..(ArrLength(getChannelData(buffer, 0)) - 1) : w % buffer.sampleRate = 0}

\* The root mean square of the window at w is above 10^-6: the mean square of
\* the numerators is above 2^20 / 5^12 (which is below 9 / 2047).
RmsAboveMicro(w) ==
    LET data == getChannelData(buffer, 0)
        n == Min(windowSize, ArrLength(data) - w)
        sum == ArrSumSq(SubArray(data, w, w + n))
    IN  sum >= 9 \/ sum * 244140625 > n * 1048576

\* C11: getNoiseFloor returns -60 when no analysis window of channel 0 has an
\* RMS above 10^-6: for an all-zero channel 0 and for an empty buffer too.
C11_FallbackWhenNoWindowSurvives ==
    (pc = "nfDone" /\ \A w \in WindowStarts : ~RmsAboveMicro(w)) =>
        /\ noiseFloor.kind = "fallback"
        /\ noiseFloor.db = -60

\* C11 witness: the fallback returned for a buffer of two windows whose
\* channel 0 is not all zeros and whose channel 1 is loud.
C11_Witness ==
    /\ pc = "nfDone"
    /\ noiseFloor.kind = "fallback"
    /\ buffer.numberOfChannels = 2
    /\ buffer.length > buffer.sampleRate
    /\ ArrSumSq(getChannelData(buffer, 0)) > 0

-----------------------------------------------------------------------------
(* removeSilence on voiced audio, one quiet span, voiced audio *)

\* Channel 0 is three runs: about 0.3, then a ramp of at most 4096 units (below
\* -20 dB), then about 0.3 again.  The span need not start or end on a block
\* boundary.  Channel 1 holds the negated samples.
SpanLeads == {blockSize, blockSize + 512}
SpanLens == {blockSize, 2 * blockSize, 3500, 4 * blockSize}
SpanTails == {488, blockSize}

SpanBuffer(ch, lead, span, tail) ==
    AudioBuffer(ch, lead + span + tail, 8000,
                IF ch = 1
                THEN <<<<Run(lead, 20000, 1), Run(span, 1, 1), Run(tail, 20000, 1)>>>>
                ELSE <<<<Run(lead, 20000, 1), Run(span, 1, 1), Run(tail, 20000, 1)>>,
                       <<Run(lead, -20000, -1), Run(span, -1, -1), Run(tail, -20000, -1)>>>>)

SpanBuffers ==
    {SpanBuffer(ch, lead, span, tail) :
        ch \in 1..2, lead \in SpanLeads, span \in SpanLens, tail \in SpanTails}

SpanOptionsSet ==
    [removeRatio : {70, 100},
     thresholdDb : {Some(-20)},
     minSilenceDuration : {Some(0), Some(200)},
     padding : {Some(0), Some(50), Some(200)}]

InitSpan ==
    /\ pc = "start"
    /\ NoiseFloorIdle /\ Mp3Idle /\ AppIdle
    /\ yields = 0
    /\ buffer = Null
    /\ view = <<>>
    /\ offset = 0
    /\ pos = 0
    /\ gateThresholdDb = 0
    /\ aggressive = FALSE
    /\ envelope = <<0, 1>>
    /\ inputBuffer \in SpanBuffers
    /\ options \in SpanOptionsSet
    /\ onProgress \in BOOLEAN
    /\ blockIsSilence = <<>>
    /\ rawRegions = <<>>
    /\ regions = <<>>
    /\ outputSamplesCount = 0
    /\ regionDirectives = <<>>
    /\ outputBuffer = Null
    /\ c = 0
    /\ i = 0
    /\ writeCursor = 0
    /\ progressLog = <<>>
    /\ finalRegions = <<>>

SpecSpan == InitSpan /\ [][NextRS]_vars

\* The span below the threshold, and the samples of the whole blocks inside it.
SpanStart == inputBuffer.data[1][1].len
SpanEnd == SpanStart + inputBuffer.data[1][2].len
SpanWholeBlocks == Max(0, (SpanEnd \div 1024) - CeilDiv(SpanStart, 1024)) * 1024

SilentCount(rs) == Len(SelectSeq(rs, LAMBDA r : r.isSilence))

\* C12 as stated: voiced audio, a span below the threshold that holds a whole
\* block and is longer than twice the padding, voiced audio: the returned
\* region list has exactly one silent region.
C12_OneSilentRegionForOneSpan ==
    (pc = "done" /\ SpanWholeBlocks >= 1024 /\ SpanEnd - SpanStart > 2 * paddingSamples) =>
        SilentCount(finalRegions) = 1

\* C12, amended: the returned region list has exactly one silent region when
\* the whole blocks inside the span hold more than twice the padding, and none
\* otherwise.
C12_OneSilentRegionWhenBlocksOutlastPadding ==
    pc = "done" =>
        SilentCount(finalRegions) = (IF SpanWholeBlocks > 2 * paddingSamples THEN 1 ELSE 0)

\* C12 witness: a finished call with padding on a span that starts and ends
\* inside a block, with one silent region returned, shorter than the span.
C12_Witness ==
    /\ pc = "done"
    /\ paddingSamples > 0
    /\ SpanStart % 1024 # 0
    /\ SpanEnd % 1024 # 0
    /\ SilentCount(finalRegions) = 1
    /\ \E k \in 1..Len(finalRegions) :
          /\ finalRegions[k].isSilence
          /\ finalRegions[k].start > SpanStart
          /\ finalRegions[k].end < SpanEnd

-----------------------------------------------------------------------------
(* bufferToMp3 *)

\* bufferToMp3 inputs have up to MaxMp3Blocks full blocks, one frame more or less.
MaxMp3Blocks == 2

sampleBlockSize == 1152 * 10
Mp3Kbps == 128

\* No test at all: not the program's.
LameMissing_Never == FALSE

\* Line 348: typeof lamejs === 'undefined'
LameMissing == lamejs = "undefined"

\* Lines 356-357
left == getChannelData(buffer, 0)
right == IF buffer.numberOfChannels > 1 THEN getChannelData(buffer, 1) ELSE left

\* The end without the clamp to the length: not the program's.
BlockEnd_Unclamped(at) == at + sampleBlockSize

\* Line 363
BlockEnd(at) == Min(at + sampleBlockSize, ArrLength(left))

\* Lines 368-369: the clamp, s < 0 ? s * 0x8000 : s * 0x7FFF, and the store
\* into an Int16Array, which truncates toward zero and wraps modulo 2^16.
Mp3Pcm16(x) ==
    LET s == Clamp(x)
        t == IF s < 0 THEN -MulDiv(-s, NegScale, SampleDen) ELSE MulDiv(s, PosScale, SampleDen)
    IN  ((t + 32768) % 65536) - 32768

\* leftChunk / rightChunk of the block [at, end): their first and last elements.
\* End samples past the array are undefined, stored as 0.
ChunkEnds(a, at, end) ==
    <<Mp3Pcm16(ArrAt(a, at)),
      IF end - 1 < ArrLength(a) THEN Mp3Pcm16(ArrAt(a, end - 1)) ELSE 0>>

\* Lines 378-382: the encodeBuffer call of the block [at, end).
EncodeCall(at, end) ==
    [op |-> "encodeBuffer", start |-> at, end |-> end,
     left |-> ChunkEnds(left, at, end),
     right |-> IF buffer.numberOfChannels = 1 THEN <<>> ELSE ChunkEnds(right, at, end)]

FlushCall == [op |-> "flush", start |-> 0, end |-> 0, left |-> <<>>, right |-> <<>>]

\* Byte counts the encoder may return: nothing, or some bytes.
Mp3BufLengths == {0, 417}

\* Lines 384-386 and 392-394: mp3buf is pushed when it is not empty.  A chunk
\* is the number of the call that returned it and its length.
PushChunk(data, call, len) == IF len > 0 THEN Append(data, [call |-> call, len |-> len]) ELSE data

Mp3Frames ==
    {k * sampleBlockSize + d : k \in 0..MaxMp3Blocks, d \in {-1, 0, 1}} \cap (1..(MaxMp3Blocks * sampleBlockSize + 1))

Mp3Buffers ==
    UNION {{AudioBuffer(1, n, 44100, <<<<Run(n, v0, 1)>>>>),
            AudioBuffer(2, n, 44100, <<<<Run(n, v0, 1)>>, <<Run(n, -v0, -2)>>>>)} :
           n \in Mp3Frames, v0 \in {-SampleDen, 10}}

InitMp3 ==
    /\ pc = "mp3Start"
    /\ yields = 0
    /\ buffer \in Mp3Buffers
    /\ lamejs \in {"undefined", "loaded"}
    /\ mp3encoder = Null
    /\ mp3Data = <<>>
    /\ samplesConverted = 0
    /\ NoiseFloorIdle /\ AppIdle
    /\ view = <<>>
    /\ offset = 0
    /\ pos = 0
    /\ gateThresholdDb = 0
    /\ aggressive = FALSE
    /\ envelope = <<0, 1>>
    /\ inputBuffer = Null
    /\ options = Null
    /\ onProgress = FALSE
    /\ blockIsSilence = <<>>
    /\ rawRegions = <<>>
    /\ regions = <<>>
    /\ outputSamplesCount = 0
    /\ regionDirectives = <<>>
    /\ outputBuffer = Null
    /\ c = 0
    /\ i = 0
    /\ writeCursor = 0
    /\ progressLog = <<>>
    /\ finalRegions = <<>>

mp3Unused == <<buffer, lamejs, wavVars, gateVars, nfVars, appVars, inputBuffer, options,
               onProgress, blockIsSilence, rawRegions, regions, outputSamplesCount,
               regionDirectives, outputBuffer, c, writeCursor, progressLog, finalRegions>>

\* Lines 348-360: the lamejs test, the encoder, the start of the block loop.
Mp3Enter ==
    /\ pc = "mp3Start"
    /\ IF LameMissing
       THEN /\ pc' = "threw"
            /\ UNCHANGED <<mp3encoder, mp3Data, i>>
       ELSE /\ mp3encoder' = [numChannels |-> buffer.numberOfChannels,
                              sampleRate |-> buffer.sampleRate,
                              kbps |-> Mp3Kbps,
                              calls |-> <<>>]
            /\ mp3Data' = <<>>
            /\ i' = 0
            /\ pc' = "mp3Blocks"
    /\ UNCHANGED <<yields, samplesConverted, mp3Unused>>

\* Lines 362-389: one block, converted, encoded, pushed, and the yield.
Mp3EncodeBlock ==
    /\ pc = "mp3Blocks"
    /\ i < ArrLength(left)
    /\ \E len \in Mp3BufLengths :
          /\ mp3encoder' = [mp3encoder EXCEPT !.calls = Append(@, EncodeCall(i, BlockEnd(i)))]
          /\ mp3Data' = PushChunk(mp3Data, Len(mp3encoder.calls) + 1, len)
    /\ samplesConverted' = samplesConverted
            + (BlockEnd(i) - i) * (IF buffer.numberOfChannels > 1 THEN 2 ELSE 1)
    /\ yields' = yields + 1
    /\ i' = i + sampleBlockSize
    /\ UNCHANGED <<pc, mp3Unused>>

\* Lines 391-396: the flush and the Blob of the chunks.
Mp3Flush ==
    /\ pc = "mp3Blocks"
    /\ i >= ArrLength(left)
    /\ \E len \in Mp3BufLengths :
          /\ mp3encoder' = [mp3encoder EXCEPT !.calls = Append(@, FlushCall)]
          /\ mp3Data' = PushChunk(mp3Data, Len(mp3encoder.calls) + 1, len)
    /\ pc' = "mp3Done"
    /\ UNCHANGED <<yields, samplesConverted, i, mp3Unused>>

NextMp3 ==
    \/ Mp3Enter
    \/ Mp3EncodeBlock
    \/ Mp3Flush

SpecMp3 == InitMp3 /\ [][NextMp3]_vars

\* C13: with lamejs not loaded bufferToMp3 throws at once: no encoder is
\* created, no sample is converted, nothing is yielded and there is no payload.
C13_FailsFastWithoutLamejs ==
    (lamejs = "undefined" /\ pc # "mp3Start") =>
        /\ pc = "threw"
        /\ mp3encoder = Null
        /\ samplesConverted = 0
        /\ yields = 0
        /\ mp3Data = <<>>

\* C13 witness: the call has thrown on a buffer of more than one block.
C13_Witness ==
    /\ pc = "threw"
    /\ lamejs = "undefined"
    /\ buffer.length > sampleBlockSize

Mp3BlockCount == CeilDiv(buffer.length, 11520)

RECURSIVE SumOfSizes(_)
SumOfSizes(cs) ==
    IF cs = <<>> THEN 0 ELSE (Head(cs).end - Head(cs).start) + SumOfSizes(Tail(cs))

\* C20: the encoder receives ceil(F / 11520) blocks in increasing sample
\* order, each of at most 11520 frames, whose sizes sum to F; a yield follows
\* every block; flush is called once, after the last encodeBuffer call, and
\* its output, when there is any, is the last chunk of the payload, the other
\* chunks being in the order of their calls.
C20_BlocksThenOneFlush ==
    /\ pc = "mp3Blocks" =>
          /\ yields = Len(mp3encoder.calls)
          /\ \A k \in 1..Len(mp3encoder.calls) :
                /\ mp3encoder.calls[k].op = "encodeBuffer"
                /\ mp3encoder.calls[k].start = (k - 1) * 11520
                /\ mp3encoder.calls[k].end > mp3encoder.calls[k].start
                /\ mp3encoder.calls[k].end - mp3encoder.calls[k].start <= 11520
                /\ k > 1 => mp3encoder.calls[k].start = mp3encoder.calls[k - 1].end
    /\ pc = "mp3Done" =>
          LET cs == mp3encoder.calls
              n == Len(cs) - 1
          IN  /\ n = Mp3BlockCount
              /\ yields = n
              /\ cs[n + 1].op = "flush"
              /\ \A k \in 1..n :
                    /\ cs[k].op = "encodeBuffer"
                    /\ cs[k].start = (k - 1) * 11520
                    /\ cs[k].end - cs[k].start <= 11520
                    /\ cs[k].end - cs[k].start > 0
                    /\ k > 1 => cs[k].start = cs[k - 1].end
              /\ SumOfSizes(SubSeq(cs, 1, n)) = buffer.length
              /\ \A k \in 1..(Len(mp3Data) - 1) : mp3Data[k].call < mp3Data[k + 1].call
              /\ \A k \in 1..Len(mp3Data) : mp3Data[k].call <= n + 1
              /\ (\E k \in 1..Len(mp3Data) : mp3Data[k].call = n + 1) =>
                    mp3Data[Len(mp3Data)].call = n + 1

\* C20 witness: a finished call on a two-channel buffer of three blocks, the
\* last one short, with the output of flush last in the payload.
C20_Witness ==
    /\ pc = "mp3Done"
    /\ buffer.numberOfChannels = 2
    /\ Len(mp3encoder.calls) = 4
    /\ mp3encoder.calls[3].end - mp3encoder.calls[3].start < 11520
    /\ Len(mp3Data) >= 2
    /\ mp3Data[Len(mp3Data)].call = 4

-----------------------------------------------------------------------------
(* App: handleProcess and the handlers that act between two runs *)

\* One run of handleProcess at a time: the other handlers act while no run is
\* in flight.  The library functions are their calls and outcomes only:
\* each either resolves or rejects.

uiVars == <<file, workflowStep, mode, silenceEnabled, enhanceEnabled>>
closureVars == <<hpFile, hpSilenceOn, hpEnhanceOn, hpMode>>
nonAppVars == <<yields, rsVars, buffer, wavVars, gateVars, nfVars, mp3Vars>>

ValidationMsg == "Please enable at least one feature."
ProcessFailureMsg == "Failed to process audio. Format might be unsupported or file corrupted."
EncodeFailureMsg == "Failed to encode audio."

FileNames == {"a.wav", "b.mp3"}
SilenceModes == {70, 80, 100}
\* Math.round(p * 100) of the last progress report of a removeSilence call.
ProgressShown == {0, 50}

Call(fn, arg) == [fn |-> fn, arg |-> arg]

\* The state a run of handleProcess reads and writes.
Cur ==
    [pc |-> pc, status |-> status, statusLog |-> statusLog, errorMsg |-> errorMsg,
     progress |-> progress, originalDuration |-> originalDuration,
     newDuration |-> newDuration, originalBuffer |-> originalBuffer,
     processedBuffer |-> processedBuffer, silenceRegions |-> silenceRegions,
     downloadUrl |-> downloadUrl, exportFormat |-> exportFormat,
     isEncoding |-> isEncoding, finalBuffer |-> finalBuffer, hpRegions |-> hpRegions,
     calls |-> calls, encodings |-> encodings]

SetApp(n) ==
    /\ pc' = n.pc
    /\ status' = n.status
    /\ statusLog' = n.statusLog
    /\ errorMsg' = n.errorMsg
    /\ progress' = n.progress
    /\ originalDuration' = n.originalDuration
    /\ newDuration' = n.newDuration
    /\ originalBuffer' = n.originalBuffer
    /\ processedBuffer' = n.processedBuffer
    /\ silenceRegions' = n.silenceRegions
    /\ downloadUrl' = n.downloadUrl
    /\ exportFormat' = n.exportFormat
    /\ isEncoding' = n.isEncoding
    /\ finalBuffer' = n.finalBuffer
    /\ hpRegions' = n.hpRegions
    /\ calls' = n.calls
    /\ encodings' = n.encodings

setStatus(st, v) == [st EXCEPT !.status = v, !.statusLog = Append(@, v)]
callLibrary(st, fn, arg) == [st EXCEPT !.calls = Append(@, Call(fn, arg))]

\* The test that never holds: not the program's.
NeitherEnabled_Never == FALSE

\* App.tsx:213
NeitherEnabled == ~silenceEnabled /\ ~enhanceEnabled

\* Enhancement never entered: not the program's.
NeedsEnhance_Never == FALSE

\* App.tsx:229 and 246, on the values the closure of the run holds.
NeedsSilence == hpSilenceOn
NeedsEnhance == hpEnhanceOn

\* The buffer decodeAudio resolves with for file f, and the regions of a
\* removeSilence call on a buffer of file f.
Decoded(f) == f \o <<"decodeAudio">>
RegionsOf(f) == f \o <<"regions">>

\* App.tsx:262-266
Catch(st) ==
    [setStatus(st, "error") EXCEPT !.errorMsg = ProcessFailureMsg, !.pc = "appIdle"]

\* App.tsx:252-258 and 187-189: publish the result, enter generateDownload.
Publish(st) ==
    [st EXCEPT !.processedBuffer = st.finalBuffer,
               !.silenceRegions = st.hpRegions,
               !.newDuration = st.finalBuffer,
               !.exportFormat = "wav",
               !.isEncoding = TRUE,
               !.pc = "hpEncodeDelay"]

\* App.tsx:246-248
EnhanceStage(st) ==
    IF NeedsEnhance THEN [setStatus(st, "enhancing") EXCEPT !.pc = "hpEnhanceDelay"]
    ELSE Publish(st)

\* App.tsx:229-232
SilenceStage(st) ==
    IF NeedsSilence THEN [setStatus(st, "processing") EXCEPT !.pc = "hpSilenceDelay"]
    ELSE EnhanceStage(st)

InitApp ==
    /\ pc = "appIdle"
    /\ AppIdle
    /\ NoiseFloorIdle /\ Mp3Idle
    /\ yields = 0
    /\ buffer = Null
    /\ view = <<>>
    /\ offset = 0
    /\ pos = 0
    /\ gateThresholdDb = 0
    /\ aggressive = FALSE
    /\ envelope = <<0, 1>>
    /\ inputBuffer = Null
    /\ options = Null
    /\ onProgress = FALSE
    /\ blockIsSilence = <<>>
    /\ rawRegions = <<>>
    /\ regions = <<>>
    /\ outputSamplesCount = 0
    /\ regionDirectives = <<>>
    /\ outputBuffer = Null
    /\ c = 0
    /\ i = 0
    /\ writeCursor = 0
    /\ progressLog = <<>>
    /\ finalRegions = <<>>

\* App.tsx:142-155, from one of the two buttons of the landing screen.
ToolSelected ==
    /\ workflowStep = "landing"
    /\ \E intent \in {"silence", "enhance"} :
          /\ silenceEnabled' = (intent = "silence")
          /\ enhanceEnabled' = (intent # "silence")
    /\ workflowStep' = "import"
    /\ UNCHANGED <<file, mode, closureVars, nonAppVars>>
    /\ SetApp(Cur)

handleToolSelect == pc = "appIdle" /\ ToolSelected

\* App.tsx:157-184, with a file chosen in the dialog the import screen opens.
FileChosen ==
    /\ workflowStep = "import"
    /\ \E name \in FileNames : file' = <<name>>
    /\ workflowStep' = "config"
    /\ SetApp([Cur EXCEPT !.downloadUrl = <<>>, !.status = "idle", !.newDuration = <<>>,
                          !.originalDuration = <<>>, !.originalBuffer = <<>>,
                          !.processedBuffer = <<>>, !.silenceRegions = <<>>,
                          !.errorMsg = "", !.progress = 0, !.exportFormat = "wav"])
    /\ UNCHANGED <<mode, silenceEnabled, enhanceEnabled, closureVars, nonAppVars>>

handleFileChange == pc = "appIdle" /\ FileChosen

\* App.tsx:454-559: the controls of the configuration screen.
ConfigShown == workflowStep = "config" /\ file # <<>> /\ status = "idle"

ToggleSilence ==
    /\ pc = "appIdle"
    /\ ConfigShown
    /\ silenceEnabled' = ~silenceEnabled
    /\ UNCHANGED <<file, workflowStep, mode, enhanceEnabled, closureVars, nonAppVars>>
    /\ SetApp(Cur)

ToggleEnhance ==
    /\ pc = "appIdle"
    /\ ConfigShown
    /\ enhanceEnabled' = ~enhanceEnabled
    /\ UNCHANGED <<file, workflowStep, mode, silenceEnabled, closureVars, nonAppVars>>
    /\ SetApp(Cur)

SetMode ==
    /\ pc = "appIdle"
    /\ ConfigShown
    /\ silenceEnabled
    /\ \E m \in SilenceModes : mode' = m
    /\ UNCHANGED <<file, workflowStep, silenceEnabled, enhanceEnabled, closureVars, nonAppVars>>
    /\ SetApp(Cur)

\* App.tsx:457 and 496
ChangeFile ==
    /\ pc = "appIdle"
    /\ ConfigShown
    /\ file' = <<>>
    /\ workflowStep' = "import"
    /\ UNCHANGED <<mode, silenceEnabled, enhanceEnabled, closureVars, nonAppVars>>
    /\ SetApp(Cur)

\* App.tsx:333, the title, shown on every screen.
TitleClicked ==
    /\ file' = <<>>
    /\ workflowStep' = "landing"
    /\ UNCHANGED <<mode, silenceEnabled, enhanceEnabled, closureVars, nonAppVars>>
    /\ SetApp(Cur)

\* App.tsx:333 and 788
BackToLanding == pc = "appIdle" /\ TitleClicked

\* App.tsx:721-732
StartOver ==
    /\ pc = "appIdle"
    /\ status = "done"
    /\ file' = <<>>
    /\ workflowStep' = "landing"
    /\ SetApp([Cur EXCEPT !.status = "idle", !.downloadUrl = <<>>, !.originalBuffer = <<>>,
                          !.processedBuffer = <<>>, !.silenceRegions = <<>>])
    /\ UNCHANGED <<mode, silenceEnabled, enhanceEnabled, closureVars, nonAppVars>>

\* App.tsx:208-221: handleProcess up to the await of decodeAudio.  The button
\* that invokes it is rendered at line 454 and disabled at line 598; the
\* handler itself tests the file and the toggles.
HPStart ==
    /\ pc = "appIdle"
    /\ hpFile' = file
    /\ hpSilenceOn' = silenceEnabled
    /\ hpEnhanceOn' = enhanceEnabled
    /\ hpMode' = mode
    /\ LET st == [Cur EXCEPT !.errorMsg = "", !.statusLog = <<>>, !.calls = <<>>,
                             !.finalBuffer = <<>>, !.hpRegions = <<>>]
       IN  IF file = <<>> THEN SetApp(st)
           ELSE IF NeitherEnabled
           THEN SetApp([setStatus(st, "error") EXCEPT !.errorMsg = ValidationMsg])
           ELSE SetApp([callLibrary(setStatus(st, "decoding"), "decodeAudio", file)
                           EXCEPT !.pc = "hpDecoding"])
    /\ UNCHANGED <<uiVars, nonAppVars>>

\* App.tsx:221-232: decodeAudio settles.
HPDecoded ==
    /\ pc = "hpDecoding"
    /\ \E ok \in BOOLEAN :
          IF ~ok THEN SetApp(Catch(Cur))
          ELSE SetApp(SilenceStage([Cur EXCEPT !.originalDuration = Decoded(hpFile),
                                               !.originalBuffer = Decoded(hpFile),
                                               !.finalBuffer = Decoded(hpFile),
                                               !.hpRegions = <<>>]))
    /\ UNCHANGED <<uiVars, closureVars, nonAppVars>>

\* App.tsx:232-239: the 50 ms are over, removeSilence is called on audioBuffer.
HPSilenceCall ==
    /\ pc = "hpSilenceDelay"
    /\ SetApp([callLibrary(Cur, "removeSilence", finalBuffer) EXCEPT !.pc = "hpSilence"])
    /\ UNCHANGED <<uiVars, closureVars, nonAppVars>>

\* App.tsx:239-248: removeSilence settles, having reported progress.
HPSilenceDone ==
    /\ pc = "hpSilence"
    /\ \E ok \in BOOLEAN : \E p \in ProgressShown :
          IF ~ok THEN SetApp(Catch([Cur EXCEPT !.progress = p]))
          ELSE SetApp(EnhanceStage([Cur EXCEPT !.progress = p,
                                               !.finalBuffer = Append(@, "removeSilence"),
                                               !.hpRegions = RegionsOf(hpFile)]))
    /\ UNCHANGED <<uiVars, closureVars, nonAppVars>>

\* App.tsx:248-249: the 20 ms are over, enhanceAudio is called on finalBuffer.
HPEnhanceCall ==
    /\ pc = "hpEnhanceDelay"
    /\ SetApp([callLibrary(Cur, "enhanceAudio", finalBuffer) EXCEPT !.pc = "hpEnhance"])
    /\ UNCHANGED <<uiVars, closureVars, nonAppVars>>

\* App.tsx:249-258 and 187-189: enhanceAudio settles.
HPEnhanceDone ==
    /\ pc = "hpEnhance"
    /\ \E ok \in BOOLEAN :
          IF ~ok THEN SetApp(Catch(Cur))
          ELSE SetApp(Publish([Cur EXCEPT !.finalBuffer = Append(@, "enhanceAudio")]))
    /\ UNCHANGED <<uiVars, closureVars, nonAppVars>>

\* App.tsx:189-196: the 10 ms are over, generateDownload calls bufferToWav.
HPEncodeCall ==
    /\ pc = "hpEncodeDelay"
    /\ SetApp([callLibrary(Cur, "bufferToWav", finalBuffer) EXCEPT !.pc = "hpEncoding"])
    /\ UNCHANGED <<uiVars, closureVars, nonAppVars>>

\* App.tsx:196-205 and 260: the encoder settles, generateDownload swallows its
\* error, and handleProcess sets the status.
HPEncodeDone ==
    /\ pc = "hpEncoding"
    /\ \E ok \in BOOLEAN :
          LET st == IF ok
                    THEN [Cur EXCEPT !.downloadUrl = <<[format |-> "wav", of |-> finalBuffer]>>]
                    ELSE [Cur EXCEPT !.errorMsg = EncodeFailureMsg]
          IN  SetApp([setStatus([st EXCEPT !.isEncoding = FALSE], "done") EXCEPT !.pc = "appIdle"])
    /\ UNCHANGED <<uiVars, closureVars, nonAppVars>>

NextApp ==
    \/ handleToolSelect
    \/ handleFileChange
    \/ ToggleSilence
    \/ ToggleEnhance
    \/ SetMode
    \/ ChangeFile
    \/ BackToLanding
    \/ StartOver
    \/ HPStart
    \/ HPDecoded
    \/ HPSilenceCall
    \/ HPSilenceDone
    \/ HPEnhanceCall
    \/ HPEnhanceDone
    \/ HPEncodeCall
    \/ HPEncodeDone

SpecApp == InitApp /\ [][NextApp]_vars

\* C14: handleProcess invoked with a file selected and both features disabled
\* ends at once in status 'error' with the validation message; no library
\* function is called and the buffers, the regions and the download URL keep
\* their values.
C14_ValidationFailureDoesNothing ==
    [][(HPStart /\ file # <<>> /\ ~silenceEnabled /\ ~enhanceEnabled) =>
          /\ status' = "error"
          /\ errorMsg' = "Please enable at least one feature."
          /\ pc' = "appIdle"
          /\ calls' = <<>>
          /\ UNCHANGED <<originalBuffer, processedBuffer, silenceRegions, downloadUrl,
                         originalDuration, newDuration, isEncoding, progress>>]_vars

\* C14 witness: the state after such an invocation.
C14_Witness ==
    /\ pc = "appIdle"
    /\ file # <<>>
    /\ hpFile = file
    /\ ~silenceEnabled
    /\ ~enhanceEnabled
    /\ status = "error"
    /\ statusLog = <<"error">>
    /\ errorMsg = "Please enable at least one feature."

IsPrefix(a, b) == Len(a) <= Len(b) /\ SubSeq(b, 1, Len(a)) = a
Functions(cs) == [k \in 1..Len(cs) |-> cs[k].fn]
When(cond, x) == IF cond THEN <<x>> ELSE <<>>

\* The library calls and the status values of a complete run with the toggles
\* the run started with.
StagesInOrder ==
    <<"decodeAudio">> \o When(hpSilenceOn, "removeSilence")
        \o When(hpEnhanceOn, "enhanceAudio") \o <<"bufferToWav">>
StatusInOrder ==
    <<"decoding">> \o When(hpSilenceOn, "processing") \o When(hpEnhanceOn, "enhancing")

\* C16: the calls of a run are decodeAudio, removeSilence if enabled,
\* enhanceAudio if enabled, bufferToWav, in this order, each stage on the output
\* of the stage before it; status goes through 'decoding', 'processing',
\* 'enhancing' without the disabled stages, each set before the call of its
\* stage, and 'done' is set only after the encoder has settled.
C16_StagesInFixedOrder ==
    /\ IsPrefix(Functions(calls), StagesInOrder)
    /\ \/ IsPrefix(statusLog, StatusInOrder \o <<"done">>)
       \/ /\ statusLog # <<>>
          /\ statusLog[Len(statusLog)] = "error"
          /\ IsPrefix(SubSeq(statusLog, 1, Len(statusLog) - 1), StatusInOrder)
    /\ \A k \in 1..Len(calls) :
          /\ calls[k].fn = "decodeAudio" => calls[k].arg = hpFile
          /\ calls[k].fn = "removeSilence" =>
                /\ calls[k].arg = hpFile \o <<"decodeAudio">>
                /\ \E j \in 1..Len(statusLog) : statusLog[j] = "processing"
          /\ calls[k].fn = "enhanceAudio" =>
                /\ calls[k].arg = hpFile \o <<"decodeAudio">> \o When(hpSilenceOn, "removeSilence")
                /\ \E j \in 1..Len(statusLog) : statusLog[j] = "enhancing"
          /\ calls[k].fn = "bufferToWav" =>
                calls[k].arg = hpFile \o <<"decodeAudio">> \o When(hpSilenceOn, "removeSilence")
                                   \o When(hpEnhanceOn, "enhanceAudio")
    /\ (\E j \in 1..Len(statusLog) : statusLog[j] = "done") =>
          /\ Functions(calls) = StagesInOrder
          /\ pc = "appIdle"
          /\ ~isEncoding
    /\ (pc # "appIdle") => status = statusLog[Len(statusLog)]

\* C16 witness: a finished run with both features enabled.
C16_Witness ==
    /\ pc = "appIdle"
    /\ hpSilenceOn
    /\ hpEnhanceOn
    /\ status = "done"
    /\ statusLog = <<"decoding", "processing", "enhancing", "done">>
    /\ Functions(calls) = <<"decodeAudio", "removeSilence", "enhanceAudio", "bufferToWav">>
    /\ processedBuffer = hpFile \o <<"decodeAudio", "removeSilence", "enhanceAudio">>

-----------------------------------------------------------------------------
(* removeSilence with options left out *)

DefaultsOptionsSet ==
    [removeRatio : {70},
     thresholdDb : {Undefined, Some(-20)},
     minSilenceDuration : {Undefined, Some(0)},
     padding : {Undefined, Some(0)}]

InitDefaults ==
    /\ pc = "start"
    /\ NoiseFloorIdle /\ Mp3Idle /\ AppIdle
    /\ yields = 0
    /\ buffer = Null
    /\ view = <<>>
    /\ offset = 0
    /\ pos = 0
    /\ gateThresholdDb = 0
    /\ aggressive = FALSE
    /\ envelope = <<0, 1>>
    /\ inputBuffer \in InputBuffers
    /\ options \in DefaultsOptionsSet
    /\ onProgress \in BOOLEAN
    /\ blockIsSilence = <<>>
    /\ rawRegions = <<>>
    /\ regions = <<>>
    /\ outputSamplesCount = 0
    /\ regionDirectives = <<>>
    /\ outputBuffer = Null
    /\ c = 0
    /\ i = 0
    /\ writeCursor = 0
    /\ progressLog = <<>>
    /\ finalRegions = <<>>

SpecDefaults == InitDefaults /\ [][NextRS]_vars

\* C15: with thresholdDb, minSilenceDuration and padding left out removeSilence
\* works with -40 dB, 0.2 s and 0.15 s.
C15_DocumentedDefaults ==
    /\ options.thresholdDb = Undefined => thresholdDb = -40
    /\ options.minSilenceDuration = Undefined =>
          /\ minSilenceDuration = 200
          /\ minSilenceSamples = (200 * inputBuffer.sampleRate) \div 1000
    /\ options.padding = Undefined =>
          /\ padding = 150
          /\ paddingSamples = (150 * inputBuffer.sampleRate) \div 1000

-----------------------------------------------------------------------------
(* removeSilence: what the splice keeps of each region *)

Spliced == pc \in {"copied", "done"}

\* The non-empty regions after padding, in order.
Kept == SelectSeq(regions, LAMBDA r : r.end > r.start)

\* The number of samples the region keeps: all of a voiced or a short silent
\* region, the share 1 - removeRatio of a long silent one.
KeptCount(r) ==
    LET L == r.end - r.start
    IN  IF r.isSilence /\ L >= minSilenceSamples
        THEN (L * (100 - removeRatio)) \div 100
        ELSE L

\* The kept counts of the first k non-empty regions, added up.
RECURSIVE SumKept(_)
SumKept(k) == IF k = 0 THEN 0 ELSE SumKept(k - 1) + KeptCount(Kept[k])

\* Region j of Kept has its first KeptCount samples in the input, and the
\* output holds them where the regions before it end.
PrefixCopied(ch, j) ==
    LET r == Kept[j]
        source == SubArray(getChannelData(inputBuffer, ch), r.start, r.start + KeptCount(r))
        copied == SubArray(getChannelData(outputBuffer, ch), SumKept(j - 1), SumKept(j))
    IN  /\ ArrLength(source) = KeptCount(r)
        /\ ArrLength(copied) = KeptCount(r)
        /\ ArrEq(copied, source)

\* C17: of every non-empty region of length L the output holds all L samples
\* when the region is voiced or a silent one shorter than minSilenceSamples, and
\* the first floor(L * (1 - removeRatio)) samples when it is a silent one of at
\* least minSilenceSamples.
C17_EachRegionKeepsItsPrefix ==
    Spliced => \A ch \in 0..(numChannels - 1) : \A j \in 1..Len(Kept) : PrefixCopied(ch, j)

\* The same on buffers made of whole blocks, where the last region ends at the
\* end of the buffer.
C17_OnWholeBlocks == length % blockSize = 0 => C17_EachRegionKeepsItsPrefix

-----------------------------------------------------------------------------
(* removeSilence: the classification of a block *)

\* The largest magnitude of block b over all channels and all of its samples.
FullScanMax(b) ==
    LET start == b * blockSize
        end == Min(start + blockSize, length)
        chMax(ch) == PieceMax(SubArray(getChannelData(inputBuffer, ch), start, end))
    IN  CHOOSE m \in {chMax(ch) : ch \in 0..(numChannels - 1)} :
            \A ch \in 0..(numChannels - 1) : chMax(ch) <= m

BlocksOf == 0..(numBlocks - 1)

\* C18: a block is flagged silent exactly when the largest magnitude over all
\* its channels is strictly below the threshold (a block whose largest magnitude
\* equals the threshold is voiced); leaving the scan early gives the flag of the
\* full scan.
C18_SilentIffMaxStrictlyBelowThreshold ==
    pc # "start" =>
        /\ Len(blockIsSilence) = numBlocks
        /\ \A b \in BlocksOf :
              blockIsSilence[b + 1] = 1 <=> 10 * FullScanMax(b) < threshold

\* A block peaking exactly at the threshold, flagged voiced, next to a silent
\* block.
C18_Witness ==
    /\ pc = "analyzed"
    /\ \E b \in BlocksOf : 10 * FullScanMax(b) = threshold /\ blockIsSilence[b + 1] = 0
    /\ \E b \in BlocksOf : blockIsSilence[b + 1] = 1

\* A block whose scan stopped before its largest sample, flagged voiced.
C18_EarlyExitReached ==
    /\ pc = "analyzed"
    /\ \E b \in BlocksOf :
          /\ blockIsSilence[b + 1] = 0
          /\ ScanBlock(inputBuffer, 0, b * blockSize, Min((b + 1) * blockSize, length), 0)
                < FullScanMax(b)

-----------------------------------------------------------------------------
(* removeSilence: the splice *)

Allocated == pc \in {"copy", "copied", "done"}

\* The cursor and the buffer in a state of the splice.
SpliceState ==
    /\ Allocated =>
          /\ outputBuffer.length = SumKept(Len(Kept))
          /\ outputSamplesCount = outputBuffer.length
          /\ Len(regionDirectives) = Len(Kept)
          /\ \A ch \in 0..(numChannels - 1) :
                ArrLength(getChannelData(outputBuffer, ch)) = outputBuffer.length
    /\ pc = "copy" =>
          /\ c < numChannels /\ i < Len(Kept)
          /\ regions[regionDirectives[i + 1].regionIndex + 1] = Kept[i + 1]
          /\ writeCursor = SumKept(i)
          /\ writeCursor + KeptCount(Kept[i + 1]) <= outputBuffer.length
    /\ Spliced => writeCursor = outputBuffer.length
    /\ pc = "threw" => outputBuffer = Null /\ outputSamplesCount = 0

\* One copy: the buffer keeps its size, the samples before the cursor stay, and
\* the cursor does not move back within a channel.
SpliceStep ==
    pc = "copy" =>
        /\ pc' \in {"copy", "copied"}
        /\ outputBuffer'.length = outputBuffer.length
        /\ ArrEq(ArrTake(getChannelData(outputBuffer', c), writeCursor),
                 ArrTake(getChannelData(outputBuffer, c), writeCursor))
        /\ (c' = c \/ pc' = "copied") =>
              /\ writeCursor' >= writeCursor
              /\ writeCursor' = writeCursor + KeptCount(Kept[i + 1])
        /\ (c' # c /\ pc' = "copy") => writeCursor' = 0 /\ i' = 0

\* C19: the output is allocated once with the sum of the kept counts of the
\* non-empty regions; on each channel the cursor only advances, the kept samples
\* of each region are written at the cursor in region order, after the samples
\* written before and inside the buffer, and the cursor ends at the allocated
\* length.
C19_SpliceFillsTheAllocation == []SpliceState /\ [][SpliceStep]_vars

\* Two channels spliced from a trimmed silent region between kept ones.
C19_Witness ==
    /\ pc = "copied"
    /\ numChannels = 2
    /\ Len(Kept) >= 3
    /\ \E j \in 1..Len(Kept) :
          /\ KeptCount(Kept[j]) > 0
          /\ KeptCount(Kept[j]) < Kept[j].end - Kept[j].start
    /\ writeCursor = outputBuffer.length

-----------------------------------------------------------------------------
(* bufferToWav: yields between chunks *)

\* Chunks converted so far.
ChunksDone == CeilDiv(pos, wavChunkSize)

\* C21: bufferToWav converts chunks of 4096 frames and yields between every two
\* consecutive chunks: when a further chunk is still to be converted, every
\* chunk converted so far has been followed by a yield.
C21_YieldBetweenChunks ==
    (pc = "wavFrames" /\ pos < buffer.length) => yields >= ChunksDone

-----------------------------------------------------------------------------
(* enhanceAudio: the gate threshold *)

\* Noise floors from 20 dB down to 20 - FloorSpan dB, the fallback among them.
FloorSpan == 120

NoiseFloors == {20 - d : d \in 0..FloorSpan}

EnhanceOptionsSet == [aggressiveGate : {Undefined, Some(FALSE), Some(TRUE)}]

\* const { aggressiveGate = false } = options
aggressiveGate == OrDefault(options.aggressiveGate, FALSE)

\* The offset above the floor without the clamps: not the program's.
GateThresholdOf_Unclamped(floor, aggr) == floor + (IF aggr THEN 22 ELSE 6)

\* Lines 176 and 180: floor plus 22 or 6 dB, clamped.
GateThresholdOf(floor, aggr) ==
    Max(-50, Min(-12, floor + (IF aggr THEN 22 ELSE 6)))

enhUnused == <<yields, buffer, wavVars, envelope, inputBuffer, onProgress, blockIsSilence,
               rawRegions, regions, outputSamplesCount, regionDirectives, outputBuffer,
               c, i, writeCursor, progressLog, finalRegions, rmsValues, mp3Vars, appVars>>

InitEnhance ==
    /\ pc = "enhStart"
    /\ NoiseFloorIdle /\ Mp3Idle /\ AppIdle
    /\ yields = 0
    /\ buffer = Null
    /\ view = <<>>
    /\ offset = 0
    /\ pos = 0
    /\ gateThresholdDb = 0
    /\ aggressive = FALSE
    /\ envelope = <<0, 1>>
    /\ inputBuffer = Null
    /\ options \in EnhanceOptionsSet
    /\ onProgress = FALSE
    /\ blockIsSilence = <<>>
    /\ rawRegions = <<>>
    /\ regions = <<>>
    /\ outputSamplesCount = 0
    /\ regionDirectives = <<>>
    /\ outputBuffer = Null
    /\ c = 0
    /\ i = 0
    /\ writeCursor = 0
    /\ progressLog = <<>>
    /\ finalRegions = <<>>

\* Line 170: getNoiseFloor answers with the fallback or with 20 * log10 of an
\* RMS value.
EnhanceMeasure ==
    /\ pc = "enhStart"
    /\ \E floor \in NoiseFloors : noiseFloor' = floor
    /\ pc' = "enhMeasured"
    /\ UNCHANGED <<options, gateThresholdDb, aggressive, enhUnused>>

\* Lines 176-184: the threshold, and the call of applyNoiseGate with it.
EnhanceGate ==
    /\ pc = "enhMeasured"
    /\ gateThresholdDb' = GateThresholdOf(noiseFloor, aggressiveGate)
    /\ aggressive' = aggressiveGate
    /\ pc' = "enhGated"
    /\ UNCHANGED <<options, noiseFloor, enhUnused>>

\* Lines 186-275: the filter chain is rendered and its buffer returned.
EnhanceRender ==
    /\ pc = "enhGated"
    /\ pc' = "enhDone"
    /\ UNCHANGED <<options, noiseFloor, gateThresholdDb, aggressive, enhUnused>>

NextEnhance ==
    \/ EnhanceMeasure
    \/ EnhanceGate
    \/ EnhanceRender

SpecEnhance == InitEnhance /\ [][NextEnhance]_vars

GateCalled == pc \in {"enhGated", "enhDone"}

\* floor + 22 (aggressive) or + 6, brought into [-50, -12]
ClampedOffset ==
    LET x == noiseFloor + (IF options.aggressiveGate = Some(TRUE) THEN 22 ELSE 6)
    IN  IF x < -50 THEN -50 ELSE IF x > -12 THEN -12 ELSE x

\* C22: the threshold passed to the noise gate is the noise floor plus 6 dB, or
\* plus 22 dB when aggressive, clamped into [-50, -12]; for every noise floor it
\* lies in [-50, -12].
C22_GateThresholdClamped ==
    GateCalled =>
        /\ gateThresholdDb = ClampedOffset
        /\ -50 <= gateThresholdDb /\ gateThresholdDb <= -12
        /\ aggressive = (options.aggressiveGate = Some(TRUE))

\* An aggressive call on a loud floor, whose offset the upper clamp cut.
C22_Witness ==
    /\ pc = "enhGated"
    /\ aggressive
    /\ noiseFloor + 22 > -12
    /\ gateThresholdDb = -12

-----------------------------------------------------------------------------
(* The transforms together: removeSilence, applyNoiseGate, bufferToWav and
   bufferToMp3, one call of one of them in a behaviour *)

InitTransforms == InitRS \/ InitGate \/ InitWav \/ InitMp3

NextTransforms == NextRS \/ NextGate \/ NextWav \/ NextMp3

SpecTransforms == InitTransforms /\ [][NextTransforms]_vars

\* The buffer a step leaves has the frames and the samples it had.
SameBuffer(before, after) ==
    /\ after.length = before.length
    /\ after.sampleRate = before.sampleRate
    /\ BufferEq(after, before)

\* The input is inputBuffer in removeSilence and buffer in the other three.
InRemoveSilence ==
    pc \in {"start", "analyzed", "segmented", "paddedForward", "padded", "planned",
            "copy", "copied"}

\* No step writes the input of the call.
InputKept ==
    IF InRemoveSilence THEN SameBuffer(inputBuffer, inputBuffer') /\ buffer' = Null
    ELSE SameBuffer(buffer, buffer') /\ inputBuffer' = Null

\* What a finished call returns was allocated by the call.
ResultAllocated ==
    /\ pc \in {"copy", "copied", "done"} => outputBuffer.length = outputSamplesCount
    /\ pc \in {"gateLoop", "gateDone"} => outputBuffer.length = buffer.length
    /\ pc \in {"wavFrames", "wavDone"} => Len(view) = wavLength
    /\ pc \in {"start", "gateStart", "wavStart"} => outputBuffer = Null /\ view = <<>>

\* C23: removeSilence, the noise gate, bufferToWav and bufferToMp3 never write
\* their input: at every step every channel of the input keeps its frame count
\* and its samples, and the result is a buffer or payload the call allocated.
C23_InputNeverWritten == []ResultAllocated /\ [][InputKept]_vars

\* A removeSilence call that dropped samples while splicing two channels.
C23_Witness ==
    /\ pc = "done"
    /\ inputBuffer.numberOfChannels = 2
    /\ outputBuffer.length < inputBuffer.length
    /\ outputBuffer.length > 0
    /\ Len(regionDirectives) >= 2

-----------------------------------------------------------------------------
(* applyNoiseGate: the channels are gated one by one *)

\* The envelope after sample k of channel ch when the channel is followed
\* alone, from an envelope of 0.
RECURSIVE ChannelEnvelope(_, _)
ChannelEnvelope(ch, k) ==
    FollowEnvelope(IF k = 0 THEN <<0, 1>> ELSE ChannelEnvelope(ch, k - 1),
                   Rat(Abs(In(ch, k)), SampleDen))

\* Output sample k of channel ch computed from the samples of channel ch, the
\* threshold, the mode and the sample rate, and from nothing else.
ChannelAlone(ch, k) == Product(In(ch, k), Gain(ChannelEnvelope(ch, k), gateThreshold))

\* C24: the envelope is 0 at the start of every channel and output channel c is
\* a function of the samples of channel c, the threshold, the mode and the
\* sample rate (so two inputs that agree on channel c give the same output
\* channel c); the output has the channel count and the frame count of the
\* input.
C24_ChannelsGatedIndependently ==
    /\ (pc = "gateLoop" /\ i = 0) => envelope = <<0, 1>>
    /\ pc = "gateDone" =>
          /\ outputBuffer.numberOfChannels = buffer.numberOfChannels
          /\ outputBuffer.length = buffer.length
          /\ \A ch \in GateChannelIds :
                /\ Len(outputBuffer.data[ch + 1]) = buffer.length
                /\ \A k \in GateFrames : Out(ch, k) = ChannelAlone(ch, k)

\* Two channels that differ, the first ending loud and the second starting
\* below the threshold.
C24_Witness ==
    /\ pc = "gateDone"
    /\ buffer.numberOfChannels = 2
    /\ buffer.length >= 2
    /\ gateThresholdDb = -20
    /\ Abs(In(0, buffer.length - 1)) >= SampleDen
    /\ GainBelowOne(Out(1, 0).gain)
    /\ \E k \in GateFrames : In(0, k) # In(1, k)

-----------------------------------------------------------------------------
(* removeSilence: regions emptied by the padding *)

Planned == pc \in {"planned", "copy", "copied", "done", "threw"}

IsEmpty(r) == r.end <= r.start

\* The 0-based indexes of the non-empty regions, in order.
RECURSIVE NonEmptyIndexes(_)
NonEmptyIndexes(k) ==
    IF k >= Len(regions) THEN <<>>
    ELSE (IF IsEmpty(regions[k + 1]) THEN <<>> ELSE <<k>>) \o NonEmptyIndexes(k + 1)

\* C25: a region of length zero after padding is skipped and raises no error:
\* no copy directive names it, it adds nothing to the output sample count, the
\* only error is an output of no samples at all, and the returned region list
\* holds no region with end <= start.
C25_EmptyRegionsSkipped ==
    /\ Planned =>
          /\ [k \in 1..Len(regionDirectives) |-> regionDirectives[k].regionIndex]
                = NonEmptyIndexes(0)
          /\ \A k \in 1..Len(regionDirectives) :
                ~IsEmpty(regions[regionDirectives[k].regionIndex + 1])
          /\ outputSamplesCount = SumKept(Len(Kept))
    /\ pc = "threw" => SumKept(Len(Kept)) = 0
    /\ pc = "done" =>
          /\ \A k \in 1..Len(finalRegions) : ~IsEmpty(finalRegions[k])
          /\ finalRegions = Kept

\* A finished call one of whose silent regions the padding emptied.
C25_Witness ==
    /\ pc = "done"
    /\ \E k \in 1..Len(regions) : IsEmpty(regions[k]) /\ regions[k].isSilence
    /\ Len(finalRegions) < Len(regions)
    /\ Len(regionDirectives) = Len(finalRegions)
    /\ outputBuffer.length > 0

-----------------------------------------------------------------------------
(* removeSilence: the padding keeps the partition *)

RegionLength(r) == r.end - r.start

\* rs is rawRegions with its inner boundaries moved: ordered, contiguous, same
\* first start and last end, no voiced region shorter and no silent one longer.
PartitionKept(rs) ==
    /\ Len(rs) = Len(rawRegions)
    /\ rs[1].start = rawRegions[1].start
    /\ rs[Len(rs)].end = rawRegions[Len(rs)].end
    /\ \A k \in 1..(Len(rs) - 1) :
          /\ rs[k].end = rs[k + 1].start
          /\ rs[k].start <= rs[k + 1].start
    /\ \A k \in 1..Len(rs) :
          /\ rs[k].isSilence = rawRegions[k].isSilence
          /\ rs[k].start <= rs[k].end
          /\ ~rs[k].isSilence => RegionLength(rs[k]) >= RegionLength(rawRegions[k])
          /\ rs[k].isSilence => RegionLength(rs[k]) <= RegionLength(rawRegions[k])

\* C26: after the forward sweep and again after the backward sweep the regions
\* are ordered and contiguous, the first start and the last end are those of
\* before the padding, every voiced region is at least as long and every silent
\* region at most as long as before the padding.
C26_PaddingPreservesPartition ==
    pc \in {"paddedForward", "padded", "planned", "copy", "copied", "done", "threw"} =>
        PartitionKept(regions)

\* Both sweeps moved a boundary: a silent region between two voiced ones lost
\* samples at both ends and kept some.
C26_Witness ==
    /\ pc = "padded"
    /\ \E k \in 2..(Len(regions) - 1) :
          /\ regions[k].isSilence
          /\ regions[k].start > rawRegions[k].start
          /\ regions[k].end < rawRegions[k].end
          /\ regions[k].start < regions[k].end
          /\ RegionLength(regions[k - 1]) > RegionLength(rawRegions[k - 1])
          /\ RegionLength(regions[k + 1]) > RegionLength(rawRegions[k + 1])

-----------------------------------------------------------------------------
(* removeSilence: the size of the result *)

\* C27: the buffer removeSilence returns never has more frames than its input.
C27_OutputNoLongerThanInput ==
    Allocated => outputBuffer.length <= inputBuffer.length

\* The same on buffers made of whole blocks.
C27_OnWholeBlocks == length % blockSize = 0 => C27_OutputNoLongerThanInput

-----------------------------------------------------------------------------
(* App: the payload of a finished run *)

\* C30: whenever status is 'done' and no encoding is in progress there is a
\* download URL of a complete payload, and a run whose encoder failed ends in
\* status 'error'.
C30_DoneHasPayload ==
    /\ (status = "done" /\ ~isEncoding) => downloadUrl # <<>>
    /\ (pc = "appIdle" /\ errorMsg = EncodeFailureMsg) => status = "error"

-----------------------------------------------------------------------------
(* App: the handlers that act while a run or an encoding is in flight *)

\* The title, the landing screen and the file input stay usable while
\* handleProcess awaits, and the format buttons of the result screen while
\* generateDownload awaits.  One run of handleProcess is in flight at most, and
\* at most MaxEncodings encodings started by handleFormatChange.
MaxEncodings == 2

ExportFormats == {"wav", "mp3"}

\* App.tsx:333 while the run awaits
TitleClickDuringRun == pc # "appIdle" /\ TitleClicked

\* App.tsx:359 and 383 while the run awaits
ToolSelectDuringRun == pc # "appIdle" /\ ToolSelected

\* App.tsx:344 while the run awaits
FileChangeDuringRun == pc # "appIdle" /\ FileChosen

\* Without the element at index k.
Without(seq, k) == SubSeq(seq, 1, k - 1) \o SubSeq(seq, k + 1, Len(seq))

\* App.tsx:270-276 and 187-189: handleFormatChange up to the first await of
\* generateDownload.  The buttons are rendered with the result screen (line
\* 647) and are not disabled while an encoding runs.
handleFormatChange ==
    /\ status = "done"
    /\ Len(encodings) < MaxEncodings
    /\ \E format \in ExportFormats :
          /\ format # exportFormat
          /\ processedBuffer # <<>>
          /\ SetApp([Cur EXCEPT !.exportFormat = format,
                                !.downloadUrl = <<>>,
                                !.isEncoding = TRUE,
                                !.encodings = Append(@, [format |-> format,
                                                         buffer |-> processedBuffer,
                                                         step |-> "delay"])])
    /\ UNCHANGED <<uiVars, closureVars, nonAppVars>>

\* App.tsx:189-196: the 10 ms of one generateDownload are over, the encoder of
\* its format is called.
FormatEncodeCall ==
    /\ \E k \in 1..Len(encodings) :
          /\ encodings[k].step = "delay"
          /\ SetApp([Cur EXCEPT !.encodings[k].step = "encoding"])
    /\ UNCHANGED <<uiVars, closureVars, nonAppVars>>

\* App.tsx:196-205: the encoder of one generateDownload settles.
FormatEncodeDone ==
    /\ \E k \in 1..Len(encodings) : \E ok \in BOOLEAN :
          /\ encodings[k].step = "encoding"
          /\ LET e == encodings[k]
                 st == IF ok
                       THEN [Cur EXCEPT !.downloadUrl = <<[format |-> e.format, of |-> e.buffer]>>]
                       ELSE [Cur EXCEPT !.errorMsg = EncodeFailureMsg]
             IN  SetApp([st EXCEPT !.isEncoding = FALSE, !.encodings = Without(@, k)])
    /\ UNCHANGED <<uiVars, closureVars, nonAppVars>>

\* App.tsx:597-598: the Process button of the configuration screen, enabled
\* with a feature on.
ProcessClicked == ConfigShown /\ ~NeitherEnabled /\ HPStart

\* One run of handleProcess (App.tsx:208-267), started from its button.
HPRun ==
    \/ ProcessClicked
    \/ HPDecoded
    \/ HPSilenceCall
    \/ HPSilenceDone
    \/ HPEnhanceCall
    \/ HPEnhanceDone
    \/ HPEncodeCall
    \/ HPEncodeDone

\* The file handlers while a run awaits.  The configuration controls and
\* Start Over are left to SpecApp: the toggles are those handleToolSelect sets
\* and the mode is the initial one.
NextFileRace ==
    \/ handleToolSelect
    \/ handleFileChange
    \/ BackToLanding
    \/ HPRun
    \/ TitleClickDuringRun
    \/ ToolSelectDuringRun
    \/ FileChangeDuringRun

SpecFileRace == InitApp /\ [][NextFileRace]_vars

\* The format buttons while encodings await.
NextFormatRace ==
    \/ handleToolSelect
    \/ handleFileChange
    \/ StartOver
    \/ HPRun
    \/ handleFormatChange
    \/ FormatEncodeCall
    \/ FormatEncodeDone

SpecFormatRace == InitApp /\ [][NextFormatRace]_vars

-----------------------------------------------------------------------------
(* App: claims on the handlers that overlap *)

\* generateDownload calls that have not settled: those of handleFormatChange
\* and that of the run.
EncodingsInFlight ==
    Len(encodings) + (IF pc \in {"hpEncodeDelay", "hpEncoding"} THEN 1 ELSE 0)

\* C28: once all encodings have completed the download URL is of a payload in
\* the selected exportFormat, and isEncoding is false only when no encoding is
\* in flight.
C28_UrlMatchesSelectedFormat ==
    /\ (EncodingsInFlight = 0 /\ status = "done" /\ downloadUrl # <<>>) =>
          downloadUrl[1].format = exportFormat
    /\ ~isEncoding => EncodingsInFlight = 0

\* The file a buffer or a region list was made from.
SourceOf(x) == SubSeq(x, 1, 1)

\* C29: whenever status is 'done' with a file selected, processedBuffer,
\* silenceRegions and the payload of the download URL were made from that file.
C29_DoneResultIsOfSelectedFile ==
    (status = "done" /\ file # <<>>) =>
        /\ processedBuffer # <<>> /\ SourceOf(processedBuffer) = file
        /\ silenceRegions # <<>> => SourceOf(silenceRegions) = file
        /\ downloadUrl # <<>> => SourceOf(downloadUrl[1].of) = file

====
